---- MODULE Spec2Model ----
(***************************************************************************)
(* Model of astrbot_plugin_life_scheduler:                                 *)
(*   - ScheduleDataManager (src/core/data.py): the in-memory map, the      *)
(*     canonical JSON file and the temporary file of the atomic write;     *)
(*   - SchedulerGenerator.generate_schedule (src/core/generator.py): the   *)
(*     in-progress gate, context collection, model calls with session      *)
(*     cleanup, the repair loop, record construction and the exits.        *)
(* generate_schedule is a coroutine: it is cut into one action per         *)
(* stretch of code between two awaits that suspend (asyncio runs such a    *)
(* stretch without interleaving another task).                             *)
(***************************************************************************)
EXTENDS Integers, Sequences, FiniteSets, TLC

\* ------------------------------------------------------------------ bounds

\* Number of concurrent generate_schedule invocations on one generator.
NCalls == 2
\* Number of distinct calendar days (DateKeys), numbered 1..NDates.
NDates == 2

\* The largest reference_history_days configured.
MaxLookback == 2

Calls == 1..NCalls
Dates == 1..NDates

\* ------------------------------------------------------------- real values

\* SchedulerGenerator._STYLE_ENFORCE_RETRIES
STYLE_ENFORCE_RETRIES == 2

\* Python's None (a local that holds no record, a payload that was not found).
None == [none |-> TRUE]

\* The text '生成失败' of the degraded record (texts are sequences of tokens, see
\* below; this one is a single token).
GenerationFailed == <<"generation failed">>

\* ScheduleData's dataclass fields (slots=True: no other attribute exists).
ScheduleDataFields == {"date", "outfit", "schedule", "status"}

\* ScheduleData.__init__: keyword arguments outside the declared fields raise
\* TypeError; omitted ones take the defaults outfit="", schedule="", status="ok".
ScheduleDataRaises(kwargs) == ~(DOMAIN kwargs \subseteq ScheduleDataFields)

ScheduleData(kwargs) ==
    [date     |-> kwargs.date,
     outfit   |-> IF "outfit" \in DOMAIN kwargs THEN kwargs.outfit ELSE <<>>,
     schedule |-> IF "schedule" \in DOMAIN kwargs THEN kwargs.schedule ELSE <<>>,
     status   |-> IF "status" \in DOMAIN kwargs THEN kwargs.status ELSE "ok"]

\* ------------------------------------------------- ScheduleDataManager: files

\* A file is absent, holds a JSON object (doc: key -> item), holds text that
\* json.loads rejects (a partial write), or holds a JSON value that is no object
\* (a list, a number, a string, null).
NoFile == [kind |-> "absent", doc |-> <<>>]
Corrupt == [kind |-> "corrupt", doc |-> <<>>]
NonObject == [kind |-> "json_other", doc |-> <<>>]
JsonFile(doc) == [kind |-> "json", doc |-> doc]

\* dataclasses.asdict(record): the JSON object of one record, as the sequence of
\* its name/value members in field order.
AsDict(r) ==
    << <<"date", r.date>>, <<"outfit", r.outfit>>,
       <<"schedule", r.schedule>>, <<"status", r.status>> >>

\* An item of the persisted document: a JSON object (its members) or another
\* JSON value (isdict = FALSE).
DictItem(members) == [isdict |-> TRUE, members |-> members]
NonDictItem == [isdict |-> FALSE, members |-> <<>>]

HasMember(members, name) == \E i \in DOMAIN members : members[i][1] = name

\* dict.get(name, default)
Get(members, name, default) ==
    IF HasMember(members, name)
    THEN members[CHOOSE i \in DOMAIN members : members[i][1] = name][2]
    ELSE default

\* ScheduleData.from_dict raises KeyError when "date" is missing.
FromDictRaises(members) == ~HasMember(members, "date")

\* A from_dict that does not read "status".
FromDict_StatusDefault(members) ==
    [date     |-> Get(members, "date", 0),
     outfit   |-> Get(members, "outfit", <<>>),
     schedule |-> Get(members, "schedule", <<>>),
     status   |-> "ok"]

\* ScheduleData.from_dict
FromDict(members) ==
    [date     |-> Get(members, "date", 0),
     outfit   |-> Get(members, "outfit", <<>>),
     schedule |-> Get(members, "schedule", <<>>),
     status   |-> Get(members, "status", "ok")]

\* ScheduleDataManager.load: `raw.items()` stands outside the try block, so a
\* parsed value without .items() raises AttributeError out of load.
LoadRaises(file) == file.kind = "json_other"

\* ScheduleDataManager.load: the map built from a file. An absent or unparsable
\* file gives the empty map; items that are no object, or that from_dict
\* rejects, are skipped.
Load(file) ==
    IF file.kind # "json" THEN <<>>
    ELSE LET keep == {k \in DOMAIN file.doc :
                        /\ file.doc[k].isdict
                        /\ ~FromDictRaises(file.doc[k].members)}
         IN [k \in keep |-> FromDict(file.doc[k].members)]

\* save's payload: {date: asdict(data) for date, data in self._data.items()}
SavePayload(m) == [k \in DOMAIN m |-> DictItem(AsDict(m[k]))]

\* How one save() ends: it returns, or one of its three file operations raises.
SaveOutcomes == {"ok", "mkdir_failed", "write_failed", "replace_failed"}

\* A save that writes the payload straight to the canonical path.
Save_InPlace(st, outcome) ==
    CASE outcome = "mkdir_failed"   -> st
      [] outcome = "write_failed"   -> [st EXCEPT !.file = Corrupt]
      [] OTHER -> [st EXCEPT !.file = JsonFile(SavePayload(st.mem))]

\* ScheduleDataManager.save on the store st = [mem, file, tmp]: mkdir, write the
\* whole payload to the temporary file, rename it over the canonical file.
Save(st, outcome) ==
    CASE outcome = "mkdir_failed"   -> st
      [] outcome = "write_failed"   -> [st EXCEPT !.tmp = Corrupt]
      [] outcome = "replace_failed" -> [st EXCEPT !.tmp = JsonFile(SavePayload(st.mem))]
      [] OTHER -> [st EXCEPT !.tmp = NoFile, !.file = JsonFile(SavePayload(st.mem))]

\* self._data[data.date] = data
Upsert(m, rec) ==
    [k \in DOMAIN m \cup {rec.date} |-> IF k = rec.date THEN rec ELSE m[k]]

\* A pop that empties the map.
Without_All(m, key) == <<>>

\* self._data.pop(key, None)
Without(m, key) == [k \in DOMAIN m \ {key} |-> m[k]]

\* A plausible slip: persist first, then update the map.
StoreSet_SaveFirst(st, rec, outcome) ==
    [Save(st, outcome) EXCEPT !.mem = Upsert(st.mem, rec)]

\* ScheduleDataManager.set
StoreSet(st, rec, outcome) ==
    Save([st EXCEPT !.mem = Upsert(st.mem, rec)], outcome)

\* ScheduleDataManager.remove: saves only when a record was popped.
StoreRemove(st, key, outcome) ==
    IF key \in DOMAIN st.mem
    THEN Save([st EXCEPT !.mem = Without(st.mem, key)], outcome)
    ELSE st

\* ScheduleDataManager.clear
StoreClear(st, save, outcome) ==
    IF save THEN Save([st EXCEPT !.mem = <<>>], outcome)
    ELSE [st EXCEPT !.mem = <<>>]

\* ------------------------------------------------------------ generator: texts

\* A text that the code matches against a pattern is a sequence of tokens:
\* "style" is the marker word, "LB"/"RB" the full-width brackets, "[" and "]"
\* the ASCII ones, ":" a colon (ASCII or full-width), "sp" a blank, "NL" a line
\* break, and every other token ("A", "B", "C", "a", "x", "coat", ...) other
\* characters.
IsSpace(t) == t \in {"sp", "NL"}

At(s, i) == IF i \in 1..Len(s) THEN s[i] ELSE "EOS"

MinOf(S) == CHOOSE x \in S : \A y \in S : x <= y

\* `\s*` from position i: the position of the first token at or after i that
\* is no whitespace (Len(s) + 1 when there is none).
RECURSIVE SkipSpaces(_, _)
SkipSpaces(s, i) ==
    IF i <= Len(s) /\ IsSpace(s[i]) THEN SkipSpaces(s, i + 1) ELSE i

\* The position of the last token at or before i that is no whitespace (0 when
\* there is none).
RECURSIVE SkipSpacesBack(_, _)
SkipSpacesBack(s, i) ==
    IF i >= 1 /\ IsSpace(s[i]) THEN SkipSpacesBack(s, i - 1) ELSE i

\* str.strip()
Strip(s) == SubSeq(s, SkipSpaces(s, 1), SkipSpacesBack(s, Len(s)))

\* The validator's marker `(?:风格|【风格】|\[风格\])` at position i: the position
\* after it, or 0.
ValidatorMarkerEnd(s, i) ==
    IF At(s, i) = "style" THEN i + 1
    ELSE IF At(s, i) = "LB" /\ At(s, i + 1) = "style" /\ At(s, i + 2) = "RB" THEN i + 3
    ELSE IF At(s, i) = "[" /\ At(s, i + 1) = "style" /\ At(s, i + 2) = "]" THEN i + 3
    ELSE 0

\* The same match without the `(?:\s|$)` that must follow the style.
OutfitMatchesStyle_NoBoundary(outfit, required) ==
    LET i1 == ValidatorMarkerEnd(outfit, SkipSpaces(outfit, 1))
        i2 == SkipSpaces(outfit, i1)
        i3 == SkipSpaces(outfit, i2 + 1)
        e  == i3 + Len(required)
    IN /\ i1 # 0
       /\ At(outfit, i2) = ":"
       /\ e <= Len(outfit) + 1
       /\ SubSeq(outfit, i3, e - 1) = required

\* _validate_payload's re.match on the trimmed outfit:
\* ^\s*(marker)\s*[:：]\s*<required>(?:\s|$)
OutfitMatchesStyle(outfit, required) ==
    LET i1 == ValidatorMarkerEnd(outfit, SkipSpaces(outfit, 1))
        i2 == SkipSpaces(outfit, i1)
        i3 == SkipSpaces(outfit, i2 + 1)
        e  == i3 + Len(required)
    IN /\ i1 # 0
       /\ At(outfit, i2) = ":"
       /\ e <= Len(outfit) + 1
       /\ SubSeq(outfit, i3, e - 1) = required
       /\ (e = Len(outfit) + 1 \/ IsSpace(At(outfit, e)))

\* _STYLE_PREFIX_RE's marker `(?:【?风格】?|\[?风格\]?)` at position i: the
\* positions after it that the alternatives and optional brackets allow.
ExtractorMarkerEnds(s, i) ==
    UNION {LET j == IF At(s, i) = br[1] THEN i + 1 ELSE i
           IN (IF At(s, j) = "style"
               THEN {j + 1} \cup (IF At(s, j + 1) = br[2] THEN {j + 2} ELSE {})
               ELSE {})
              \cup (IF At(s, i) = "style"
                    THEN {i + 1} \cup (IF At(s, i + 1) = br[2] THEN {i + 2} ELSE {})
                    ELSE {})
           : br \in {<<"LB", "RB">>, <<"[", "]">>}}

\* _extract_style_from_outfit: _STYLE_PREFIX_RE
\* ^\s*(marker)\s*[:：]\s*(?P<style>.+?)(?:\n|$) on the trimmed outfit; the
\* group runs to the end of its line and is trimmed. <<>> when nothing matches.
ExtractStyleFromOutfit(outfit) ==
    LET t == Strip(outfit)
        colons == {SkipSpaces(t, i1) : i1 \in ExtractorMarkerEnds(t, 1)}
        found  == {i2 \in colons : At(t, i2) = ":" /\ SkipSpaces(t, i2 + 1) <= Len(t)}
    IN IF found = {} THEN <<>>
       ELSE LET i3 == SkipSpaces(t, MinOf(found) + 1)
                nl == {j \in i3..Len(t) : t[j] = "NL"}
                end == IF nl = {} THEN Len(t) + 1 ELSE MinOf(nl)
            IN Strip(SubSeq(t, i3, end - 1))

\* ---------------------------------------------- generator: model output

\* What _pick_outfit_style hands to the context: "" for an empty outfit_styles
\* pool, else a style of the pool.
PickedStyles == {<<>>, <<"A">>}

\* What text_chat may answer: text holding no JSON object, or an object with
\* these fields.
NoJsonText == [json |-> FALSE, outfit |-> <<>>, schedule |-> <<>>, outfit_style |-> <<>>]
Completions ==
    {NoJsonText,
     [json |-> TRUE, outfit |-> <<"style", ":", "A", "sp", "x">>, schedule |-> <<"x">>,
      outfit_style |-> <<"A">>],
     [json |-> TRUE, outfit |-> <<"style", ":", "B", "NL", "x">>, schedule |-> <<"x">>,
      outfit_style |-> <<"A">>],
     [json |-> TRUE, outfit |-> <<"x">>, schedule |-> <<"x">>, outfit_style |-> <<>>],
     [json |-> TRUE, outfit |-> <<"x">>, schedule |-> <<"sp">>, outfit_style |-> <<>>]}

\* _extract_json_obj: the object found in the text, or None.
ExtractJsonObj(text) ==
    IF text.json
    THEN [outfit |-> text.outfit, schedule |-> text.schedule,
          outfit_style |-> text.outfit_style]
    ELSE None

\* The JSON object without members, {}.
EmptyDict == [empty |-> TRUE]

\* `not payload`
Falsy(payload) == payload = None \/ payload = EmptyDict

\* _validate_payload: (ok, reason). ctx_style is ctx.outfit_style.
ValidatePayload(payload, ctx_style) ==
    IF Falsy(payload) THEN [ok |-> FALSE, reason |-> "no JSON object"]
    ELSE LET outfit      == Strip(payload.outfit)
             schedule    == Strip(payload.schedule)
             required    == Strip(ctx_style)
             model_style == Strip(payload.outfit_style)
         IN IF outfit = <<>> THEN [ok |-> FALSE, reason |-> "outfit empty"]
            ELSE IF schedule = <<>> THEN [ok |-> FALSE, reason |-> "schedule empty"]
            ELSE IF required = <<>> THEN [ok |-> TRUE, reason |-> ""]
            ELSE IF model_style # required
                 THEN [ok |-> FALSE, reason |-> "outfit_style mismatch"]
            ELSE IF ~OutfitMatchesStyle(outfit, required)
                 THEN [ok |-> FALSE, reason |-> "outfit first line"]
            ELSE [ok |-> TRUE, reason |-> ""]

\* _to_schedule_data: the keyword arguments it hands to ScheduleData.
ToScheduleDataKwargs(payload, date_str, ctx_style) ==
    [date         |-> date_str,
     outfit_style |-> IF Strip(payload.outfit_style) # <<>>
                      THEN Strip(payload.outfit_style) ELSE ctx_style,
     outfit       |-> IF Strip(payload.outfit) # <<>>
                      THEN Strip(payload.outfit) ELSE <<"x">>,
     schedule     |-> IF Strip(payload.schedule) # <<>>
                      THEN Strip(payload.schedule) ELSE <<"x">>]

\* A degraded record without the sentinel text (the dataclass defaults).
FailedRecord_Defaults(date_str) ==
    ScheduleData([date |-> date_str, status |-> "failed"])

\* The record the except clause returns.
FailedRecord(date_str) ==
    ScheduleData([date |-> date_str, outfit |-> GenerationFailed,
                  schedule |-> GenerationFailed, status |-> "failed"])

\* ------------------------------------------------ generator: the context

\* How the collaborators of _collect_context answer.
HolidayOutcomes == {"holiday", "no_holiday", "raised"}
PersonaOutcomes == {"persona", "raised"}
ChatsCidOutcomes == {"cid", "no_cid", "raised"}
ChatsConvOutcomes == {"history", "no_history", "raised"}

\* _get_holiday_info: the holiday's name in a sentence, or "" when the day is
\* no holiday or the lookup raised.
GetHolidayInfo(out) == IF out = "holiday" THEN "holiday sentence" ELSE ""

\* A _get_persona without its try/except.
GetPersona_Propagates(out) ==
    IF out = "raised" THEN [raises |-> "PersonaError"] ELSE [value |-> "persona prompt"]

\* _get_persona: the persona's prompt, or the fixed sentence when the lookup
\* raised.
GetPersona(out) ==
    [value |-> IF out = "raised" THEN "fallback persona" ELSE "persona prompt"]

\* _get_recent_chats: the text it returns when umo or count is missing, when
\* there is no conversation id or no history, when a collaborator call or the
\* decoding of the history raised, and when there is a history.
GetRecentChats(out) ==
    CASE out = "no_umo" -> "no recent dialogue"
      [] out \in {"no_cid", "no_history"} -> "no dialogue record"
      [] out = "raised" -> "fetch failed"
      [] OTHER -> "formatted dialogue"

\* The fields of ScheduleContext that come from collaborators, before they are
\* collected.
NoCtx == [holiday |-> "unset", persona |-> "unset", recent_chats |-> "unset"]

\* ------------------------------------------- generator: control decisions

\* A gate that never looks at the flag.
GateOpen_Always(flag) == TRUE

\* `if self._generating: raise RuntimeError("schedule_generating")`
GateOpen(flag) == ~flag

\* A rejection raised inside the try block: the finally clause clears the flag.
RejectedFlag_Cleared(flag) == FALSE

\* `raise RuntimeError("schedule_generating")` stands before the try block: no
\* finally clause runs and the flag stays as it is.
RejectedFlag(flag) == flag

\* A finally clause that leaves the flag as it is.
FinallyFlag_Kept(flag) == flag

\* finally: `self._generating = False`
FinallyFlag(flag) == FALSE

\* An except clause that handles ValueError only.
Catches_ValueErrorOnly(exc) == exc = "ValueError"

\* `except Exception`: every exception the pipeline raises is an Exception.
Catches(exc) == TRUE

\* A loop without its `if ok: break`.
LoopContinues_NoBreak(ok, repairs) == repairs < STYLE_ENFORCE_RETRIES

\* `for attempt in range(1, RETRIES + 1): if ok: break`: whether another repair
\* call follows, after `repairs` repair calls.
LoopContinues(ok, repairs) == ~ok /\ repairs < STYLE_ENFORCE_RETRIES

\* A cleanup whose own error escapes.
CallLlmOutcome_CleanupEscapes(chat, cleanup) ==
    IF cleanup \in {"lookup_raised", "delete_raised"} THEN "CleanupError"
    ELSE IF chat = "raised" THEN "ProviderError" ELSE "returned"

\* _call_llm's try/finally around text_chat, with _cleanup_session swallowing
\* its own errors: it returns the completion, or raises text_chat's error.
CallLlmOutcome(chat, cleanup) ==
    IF chat = "raised" THEN "ProviderError" ELSE "returned"

\* ------------------------------------------------------------------ state

VARIABLES
    generating,  \* SchedulerGenerator._generating
    calls,       \* each generate_schedule invocation: its position, its locals, what it did
    store,       \* ScheduleDataManager: mem (_data), file (canonical path), tmp (.tmp path)
    lastOp,      \* the last ScheduleDataManager call made directly (or the caller's last
                 \* operation on the mapping all() returned), and how it ended
    view,        \* the mapping a caller got from ScheduleDataManager.all(), in the caller's hands
    pure,        \* a helper function under study: its arguments and its result
    sched,       \* LifeScheduler: the configuration, the saved configuration, the cron job
    bot          \* the plugin of src/main.py: schedule_data, its flags, the request it handles

vars == <<generating, calls, store, lastOp, view, pure, sched, bot>>

\* The variables of the components other than the generator and the store.
outside == <<pure, sched, bot>>

\* No mapping has been handed out. map is the returned dict, shared the keys
\* whose value is still the very object the store's map holds under that key.
NoView == [taken |-> FALSE, map |-> <<>>, shared |-> {}]

\* The store put new objects (or none) under `keys`: the caller's mapping no
\* longer shares them.
Unshare(v, keys) == [v EXCEPT !.shared = @ \ keys]

\* The components that take no part in a specification stay as they are here.
NoPure == [fn |-> "none"]
NoSched == [started |-> FALSE]
NoBot == [loaded |-> FALSE]

\* An invocation that has not been made yet. pc is the await it is suspended
\* at ("persona", "chats_cid", "chats_conv", "text_chat", "cleanup", "delete")
\* or how it ended ("returned", "rejected", "raised"). date, style
\* (ctx.outfit_style), repairs (the loop's attempt, the sid suffix), content and
\* chat (text_chat's outcome) are locals; result is what the caller gets.
\* chatted and cleaned are the sids the running invocation has called text_chat
\* and _cleanup_session with, logged the exception the except clause logged,
\* writes the number of data_mgr.set calls. ctx holds the collected fields of
\* the context and failed the collaborators whose lookup raised, until the
\* first prompt has been built from them and the first model call answered.
IdleCall ==
    [pc |-> "idle", date |-> 0, style |-> <<>>, repairs |-> 0, content |-> None,
     chat |-> "none", result |-> None, chatted |-> {}, cleaned |-> {},
     logged |-> "none", writes |-> 0, ctx |-> NoCtx, failed |-> {}]

InPipeline(c) ==
    calls[c].pc \in {"persona", "chats_cid", "chats_conv", "text_chat", "cleanup", "delete"}

\* The store a ScheduleDataManager constructed over `file` starts with.
StoreOver(file) == [mem |-> Load(file), file |-> file, tmp |-> NoFile]

NoOp == [op |-> "none", ok |-> TRUE, arg |-> None]

\* ----------------------------------------------- generate_schedule: exits

\* The locals die with the invocation.
Ended(cr, pc, result) ==
    [cr EXCEPT !.pc = pc, !.result = result, !.style = <<>>, !.repairs = 0,
               !.content = None, !.chat = "none", !.chatted = {}, !.cleaned = {},
               !.ctx = NoCtx, !.failed = {}]

\* An exception raised inside the try block with `data` still None: the except
\* clause logs it and returns the degraded record; the finally clause releases
\* the flag and has nothing to persist.
Leave(cr, st, exc) ==
    [call  |-> IF Catches(exc)
               THEN Ended([cr EXCEPT !.logged = exc], "returned", FailedRecord(cr.date))
               ELSE Ended(cr, "raised", [error |-> exc]),
     store |-> st,
     exit  |-> TRUE]

\* Lines 80-95 once validation has passed: _to_schedule_data, data_mgr.set, the
\* return, and the finally clause's second data_mgr.set when `data` is bound.
\* o1 and o2 are how the two saves end; an error of the second one escapes.
BuildAndStore(cr, payload, st) ==
    LET kwargs == ToScheduleDataKwargs(payload, cr.date, cr.style) IN
    IF ScheduleDataRaises(kwargs) THEN {Leave(cr, st, "TypeError")}
    ELSE LET data == ScheduleData(kwargs)
             cr2  == [cr EXCEPT !.writes = @ + 2]
         IN {[call  |-> IF o2 # "ok" \/ (o1 # "ok" /\ ~Catches("OSError"))
                        THEN Ended(cr2, "raised", [error |-> "OSError"])
                        ELSE IF o1 = "ok" THEN Ended(cr2, "returned", data)
                        ELSE Ended([cr2 EXCEPT !.logged = "OSError"], "returned",
                                   FailedRecord(cr.date)),
              store |-> StoreSet(StoreSet(st, data, o1), data, o2),
              exit  |-> TRUE] : o1 \in SaveOutcomes, o2 \in SaveOutcomes}

\* _call_llm up to its await: the provider is resolved and text_chat is called
\* with session id sid_base_<sid>.
StartChat(cr, sid) ==
    [cr EXCEPT !.pc = "text_chat", !.repairs = sid, !.chat = "none",
               !.content = None, !.chatted = @ \cup {sid}]

\* _call_llm's provider lookup: with a provider text_chat is awaited, without
\* one RuntimeError("No provider") is raised.
CallLlm(cr, st, sid) ==
    {[call |-> StartChat(cr, sid), store |-> st, exit |-> FALSE],
     Leave(cr, st, "RuntimeError")}

\* From the last await of _collect_context to the first text_chat: the history
\* and the diversity picks (the style), _build_prompt, and _call_llm. A
\* configuration these cannot read (a missing pool, a template str.format
\* rejects) raises.
Prepare(cr, st) ==
    {Leave(cr, st, "KeyError")}
    \cup UNION {CallLlm([cr EXCEPT !.style = style], st, 0) : style \in PickedStyles}

\* From the end of _cleanup_session to the next await or to the return: _call_llm
\* returns or raises, then extraction, validation, the repair loop, and the exits.
AfterCallLlm(cr, st, cleanup) ==
    LET out == CallLlmOutcome(cr.chat, cleanup) IN
    IF out # "returned" THEN {Leave(cr, st, out)}
    ELSE LET payload == ExtractJsonObj(cr.content)
             v == ValidatePayload(payload, cr.style)
         IN IF LoopContinues(v.ok, cr.repairs) THEN CallLlm(cr, st, cr.repairs + 1)
            ELSE IF ~v.ok \/ Falsy(payload) THEN {Leave(cr, st, "ValueError")}
            ELSE BuildAndStore(cr, payload, st)

\* One step of invocation c with outcome r.
Apply(c, r) ==
    /\ calls' = [calls EXCEPT ![c] = r.call]
    /\ store' = r.store
    /\ generating' = IF r.exit THEN FinallyFlag(generating) ELSE generating
    /\ UNCHANGED <<lastOp, view, outside>>

\* ---------------------------------------------- generate_schedule: actions

\* A caller invokes generate_schedule(date): the gate, and on admission the code
\* up to the first await (_get_persona), the holiday lookup included.
generate_schedule(c) ==
    /\ calls[c].pc = "idle"
    /\ \E d \in Dates, h \in HolidayOutcomes :
         IF GateOpen(generating)
         THEN /\ generating' = TRUE
              /\ calls' = [calls EXCEPT ![c] =
                             [@ EXCEPT !.pc = "persona", !.date = d,
                                       !.ctx.holiday = GetHolidayInfo(h),
                                       !.failed = IF h = "raised" THEN {"holiday"} ELSE {}]]
         ELSE /\ generating' = RejectedFlag(generating)
              /\ calls' = [calls EXCEPT ![c] =
                             Ended([@ EXCEPT !.date = d], "rejected",
                                   [error |-> "schedule_generating"])]
    /\ UNCHANGED <<store, lastOp, view, outside>>

\* The call once a collaborator's lookup ended as `out` and left `value` in the
\* context field `field`.
Collected(cr, field, value, who, out) ==
    [cr EXCEPT !.ctx = [@ EXCEPT ![field] = value],
               !.failed = IF out = "raised" THEN @ \cup {who} ELSE @]

\* get_default_persona_v3 returns or raises (the fallback sentence is used);
\* _get_history; then _get_recent_chats, which awaits only when umo and count
\* are given.
get_persona(c) ==
    /\ calls[c].pc = "persona"
    /\ \E out \in PersonaOutcomes, umo \in BOOLEAN :
         IF "raises" \in DOMAIN GetPersona(out)
         THEN \E r \in {Leave(calls[c], store, GetPersona(out).raises)} : Apply(c, r)
         ELSE LET cr == Collected(calls[c], "persona", GetPersona(out).value, "persona", out)
              IN IF umo
                 THEN /\ calls' = [calls EXCEPT ![c] = [cr EXCEPT !.pc = "chats_cid"]]
                      /\ UNCHANGED <<generating, store, lastOp, view, outside>>
                 ELSE \E r \in Prepare(Collected(cr, "recent_chats",
                                                 GetRecentChats("no_umo"), "chats", "no_umo"),
                                       store) : Apply(c, r)

\* _get_recent_chats: get_curr_conversation_id returns an id, or returns nothing
\* or raises (a fixed string is used).
recent_chats_cid(c) ==
    /\ calls[c].pc = "chats_cid"
    /\ \E out \in ChatsCidOutcomes :
         IF out = "cid"
         THEN /\ calls' = [calls EXCEPT ![c].pc = "chats_conv"]
              /\ UNCHANGED <<generating, store, lastOp, view, outside>>
         ELSE \E r \in Prepare(Collected(calls[c], "recent_chats",
                                         GetRecentChats(out), "chats", out),
                               store) : Apply(c, r)

\* _get_recent_chats: get_conversation returns a conversation, returns nothing
\* or raises; every case yields a string.
recent_chats_conv(c) ==
    /\ calls[c].pc = "chats_conv"
    /\ \E out \in ChatsConvOutcomes :
         \E r \in Prepare(Collected(calls[c], "recent_chats",
                                    GetRecentChats(out), "chats", out),
                          store) : Apply(c, r)

\* provider.text_chat returns a completion or raises; the finally clause calls
\* _cleanup_session(sid), which awaits get_curr_conversation_id(sid). The
\* collected context went into the first prompt; of ctx only outfit_style
\* (style) is read after that.
text_chat(c) ==
    /\ calls[c].pc = "text_chat"
    /\ \E text \in Completions \cup {None} :
         calls' = [calls EXCEPT ![c] =
                     [@ EXCEPT !.pc = "cleanup",
                               !.chat = IF text = None THEN "raised" ELSE "returned",
                               !.content = text,
                               !.cleaned = @ \cup {calls[c].repairs},
                               !.ctx = NoCtx,
                               !.failed = {}]]
    /\ UNCHANGED <<generating, store, lastOp, view, outside>>

\* _cleanup_session: get_curr_conversation_id(sid) returns an id (delete_conversation
\* is awaited next), returns nothing or raises.
cleanup_lookup(c) ==
    /\ calls[c].pc = "cleanup"
    /\ \E out \in {"cid", "no_conversation", "lookup_raised"} :
         IF out = "cid"
         THEN /\ calls' = [calls EXCEPT ![c].pc = "delete"]
              /\ UNCHANGED <<generating, store, lastOp, view, outside>>
         ELSE \E r \in AfterCallLlm(calls[c], store, out) : Apply(c, r)

\* _cleanup_session: delete_conversation(sid, cid) returns or raises.
cleanup_delete(c) ==
    /\ calls[c].pc = "delete"
    /\ \E out \in {"deleted", "delete_raised"} :
         \E r \in AfterCallLlm(calls[c], store, out) : Apply(c, r)

\* The file the generator's store was constructed over: day 1 has a generated
\* record, the other days have none.
GeneratorFiles ==
    {JsonFile([k \in {1} |-> DictItem(AsDict(
        ScheduleData([date |-> 1, outfit |-> <<"coat">>, schedule |-> <<"work">>])))])}

Init ==
    /\ generating = FALSE
    /\ calls = [c \in Calls |-> IdleCall]
    /\ store \in {StoreOver(f) : f \in GeneratorFiles}
    /\ lastOp = NoOp
    /\ view = NoView
    /\ pure = NoPure
    /\ sched = NoSched
    /\ bot = NoBot

Next ==
    \E c \in Calls :
        \/ generate_schedule(c)
        \/ get_persona(c)
        \/ recent_chats_cid(c)
        \/ recent_chats_conv(c)
        \/ text_chat(c)
        \/ cleanup_lookup(c)
        \/ cleanup_delete(c)

Spec == Init /\ [][Next]_vars

\* A collaborator call that is awaited.
Collaborator ==
    \E c \in Calls :
        \/ get_persona(c)
        \/ recent_chats_cid(c)
        \/ recent_chats_conv(c)
        \/ text_chat(c)
        \/ cleanup_lookup(c)
        \/ cleanup_delete(c)

\* Every collaborator call eventually returns or raises.
FairSpec == Spec /\ WF_vars(Collaborator)

\* ------------------------------------- ScheduleDataManager called directly

\* The records a caller may hand to set: for each day a generated one and a
\* degraded one.
StoreRecords ==
    {ScheduleData([date |-> d, outfit |-> <<"coat">>, schedule |-> <<"work">>]) : d \in Dates}
    \cup {FailedRecord(d) : d \in Dates}

\* The files a ScheduleDataManager may be constructed over: none, unparsable
\* text, a JSON value that is no object, a document save wrote, a document with
\* a non-object item and an item without "date", a document whose item omits
\* the optional fields, and an edited document whose item names another day
\* than its key.
StoreFiles ==
    {NoFile,
     Corrupt,
     NonObject,
     JsonFile(SavePayload([k \in {1} |->
        ScheduleData([date |-> 1, outfit |-> <<"coat">>, schedule |-> <<"work">>])])),
     JsonFile([k \in {1, 2} |->
        IF k = 1 THEN NonDictItem ELSE DictItem(<< <<"outfit", <<"coat">> >> >>)]),
     JsonFile([k \in {1} |-> DictItem(<< <<"date", 1>> >>)]),
     JsonFile([k \in {1} |-> DictItem(<< <<"date", 2>>, <<"status", "failed">> >>)])}

\* ScheduleDataManager(json_path) over `file`: __init__ calls load(), whose
\* exception leaves no store object.
ConstructOp(file) == [op |-> "construct", ok |-> ~LoadRaises(file), arg |-> None]

\* There is a store object to call.
Constructed == ~(lastOp.op = "construct" /\ ~lastOp.ok)

\* set(data)
set(rec, outcome) ==
    /\ Constructed
    /\ store' = StoreSet(store, rec, outcome)
    /\ lastOp' = [op |-> "set", ok |-> outcome = "ok", arg |-> rec]
    /\ view' = Unshare(view, {rec.date})
    /\ UNCHANGED <<generating, calls, outside>>

\* remove(date): of a stored key (the map is saved) or of another (nothing is).
remove(key, outcome) ==
    /\ Constructed
    /\ key \in DOMAIN store.mem \/ outcome = "ok"
    /\ store' = StoreRemove(store, key, outcome)
    /\ lastOp' = [op  |-> IF key \in DOMAIN store.mem THEN "remove" ELSE "remove_absent",
                  ok  |-> outcome = "ok",
                  arg |-> [date |-> key]]
    /\ view' = Unshare(view, {key})
    /\ UNCHANGED <<generating, calls, outside>>

\* clear(save=...)
clear(save, outcome) ==
    /\ Constructed
    /\ save \/ outcome = "ok"
    /\ store' = StoreClear(store, save, outcome)
    /\ lastOp' = [op  |-> IF save THEN "clear" ELSE "clear_nosave",
                  ok  |-> outcome = "ok",
                  arg |-> None]
    /\ view' = Unshare(view, DOMAIN store.mem)
    /\ UNCHANGED <<generating, calls, outside>>

\* load(): the map is rebuilt from the canonical file (as at construction), with
\* new record objects; when load raises the map stays as it was.
load ==
    /\ Constructed
    /\ store' = IF LoadRaises(store.file) THEN store
                ELSE [store EXCEPT !.mem = Load(store.file)]
    /\ lastOp' = [op |-> "load", ok |-> ~LoadRaises(store.file), arg |-> None]
    /\ view' = IF LoadRaises(store.file) THEN view ELSE Unshare(view, DOMAIN store.mem)
    /\ UNCHANGED <<generating, calls, outside>>

InitStore ==
    /\ generating = FALSE
    /\ calls = [c \in Calls |-> IdleCall]
    /\ \E f \in StoreFiles :
         /\ store = StoreOver(f)
         /\ lastOp = ConstructOp(f)
    /\ view = NoView
    /\ pure = NoPure
    /\ sched = NoSched
    /\ bot = NoBot

NextStore ==
    \/ \E rec \in StoreRecords, outcome \in SaveOutcomes : set(rec, outcome)
    \/ \E key \in Dates, outcome \in SaveOutcomes : remove(key, outcome)
    \/ \E save \in BOOLEAN, outcome \in SaveOutcomes : clear(save, outcome)
    \/ load

SpecStore == InitStore /\ [][NextStore]_vars

\* --------------------------------------- ScheduleDataManager: reads, all()

\* has(date)
StoreHas(st, key) == key \in DOMAIN st.mem

\* A get that takes the record out of the map.
StoreGet_Pop(st, key) ==
    [store  |-> [st EXCEPT !.mem = Without(@, key)],
     result |-> IF key \in DOMAIN st.mem THEN st.mem[key] ELSE None]

\* get(date): the store afterwards and the returned record (or None).
StoreGet(st, key) ==
    [store  |-> st,
     result |-> IF key \in DOMAIN st.mem THEN st.mem[key] ELSE None]

\* all(): dict(self._data), a new dict whose values are the store's own record
\* objects.
StoreAll(st) == [taken |-> TRUE, map |-> st.mem, shared |-> DOMAIN st.mem]

\* has(date)
has(key) ==
    /\ Constructed
    /\ lastOp' = [op |-> "has", ok |-> TRUE,
                  arg |-> [date |-> key, found |-> StoreHas(store, key)]]
    /\ UNCHANGED <<generating, calls, store, view, outside>>

\* get(date)
get(key) ==
    /\ Constructed
    /\ store' = StoreGet(store, key).store
    /\ lastOp' = [op |-> "get", ok |-> TRUE,
                  arg |-> [date |-> key, rec |-> StoreGet(store, key).result]]
    /\ UNCHANGED <<generating, calls, view, outside>>

\* all()
all ==
    /\ Constructed
    /\ view' = StoreAll(store)
    /\ lastOp' = [op |-> "all", ok |-> TRUE, arg |-> None]
    /\ UNCHANGED <<generating, calls, store, outside>>

\* The caller puts a record of its own under a key of the returned dict.
view_add(key, rec) ==
    /\ view.taken
    /\ view' = [view EXCEPT !.map = Upsert(@, [rec EXCEPT !.date = key]),
                            !.shared = @ \ {key}]
    /\ lastOp' = [op |-> "view_add", ok |-> TRUE, arg |-> [date |-> key]]
    /\ UNCHANGED <<generating, calls, store, outside>>

\* The caller deletes a key of the returned dict.
view_del(key) ==
    /\ view.taken
    /\ key \in DOMAIN view.map
    /\ view' = [view EXCEPT !.map = Without(@, key), !.shared = @ \ {key}]
    /\ lastOp' = [op |-> "view_del", ok |-> TRUE, arg |-> [date |-> key]]
    /\ UNCHANGED <<generating, calls, store, outside>>

\* The caller assigns the status field of a record of the returned dict.
\* ScheduleData is a dataclass that is not frozen, so the assignment succeeds;
\* when the record is the object the store's map holds, that is the object
\* that changes.
view_write(key, status) ==
    /\ view.taken
    /\ key \in DOMAIN view.map
    /\ view.map[key].status # status
    /\ view' = [view EXCEPT !.map[key].status = status]
    /\ store' = IF key \in view.shared
                THEN [store EXCEPT !.mem[key].status = status]
                ELSE store
    /\ lastOp' = [op |-> "view_write", ok |-> TRUE, arg |-> [date |-> key]]
    /\ UNCHANGED <<generating, calls, outside>>

\* The records the callers of this specification store and insert.
ViewRecords ==
    {ScheduleData([date |-> d, outfit |-> <<"coat">>, schedule |-> <<"work">>]) : d \in Dates}

InitView ==
    /\ generating = FALSE
    /\ calls = [c \in Calls |-> IdleCall]
    /\ \E f \in {NoFile, Corrupt} :
         /\ store = StoreOver(f)
         /\ lastOp = ConstructOp(f)
    /\ view = NoView
    /\ pure = NoPure
    /\ sched = NoSched
    /\ bot = NoBot

NextView ==
    \/ \E rec \in ViewRecords : set(rec, "ok")
    \/ \E key \in Dates : has(key)
    \/ \E key \in Dates : get(key)
    \/ all
    \/ \E key \in Dates, rec \in ViewRecords : view_add(key, rec)
    \/ \E key \in Dates : view_del(key)
    \/ \E key \in Dates : view_write(key, "failed")

SpecView == InitView /\ [][NextView]_vars

\* ------------------------------------------------------ _pick_outfit_style

Range(f) == {f[i] : i \in DOMAIN f}

\* `(getattr(data, "outfit_style", "") or "").strip()`, and when that is empty
\* `_extract_style_from_outfit(data.outfit)`.
RecordStyle(data) ==
    LET attr == IF "outfit_style" \in DOMAIN data THEN Strip(data.outfit_style) ELSE <<>>
    IN IF attr # <<>> THEN attr ELSE ExtractStyleFromOutfit(data.outfit)

\* The styles of the status=ok records of the `lookback_days` days before
\* today; history[i] is data_mgr.get(today - i days).
UsedStyles(lookback_days, history) ==
    {RecordStyle(history[i]) :
        i \in {j \in 1..lookback_days : history[j] # None /\ history[j].status = "ok"}}
    \ {<<>>}

\* _pick_outfit_style: the values random.choice may return.
PickOutfitStyle(styles, lookback_days, history) ==
    IF styles = <<>> THEN {<<>>}
    ELSE IF lookback_days <= 0 \/ Len(styles) <= 1 THEN Range(styles)
    ELSE LET used == UsedStyles(lookback_days, history)
             candidates == {st \in Range(styles) : st \notin used}
         IN IF candidates # {} THEN candidates ELSE Range(styles)

\* The outfit texts of stored records: the marker and style A alone, with more
\* text on the same line, with more text on the next line, a bracketed marker
\* with style B, and a text without marker.
HistoryOutfits ==
    {<<"style", ":", "A">>,
     <<"style", ":", "A", "sp", "x">>,
     <<"style", ":", "A", "NL", "x">>,
     <<"LB", "style", "RB", ":", "sp", "B">>,
     <<"x">>}

\* What data_mgr.get answers for one day: nothing, a degraded record, or a
\* generated record.
HistoryEntries(d) ==
    {None, FailedRecord(d)}
    \cup {ScheduleData([date |-> d, outfit |-> o, schedule |-> <<"work">>]) : o \in HistoryOutfits}

\* The configured pools pool["outfit_styles"].
StylePools == {<<>>, << <<"A">> >>, << <<"A">>, <<"B">> >>, << <<"A">>, <<"B">>, <<"C">> >>}

\* _pick_outfit_style(styles, today) returns.
pick_outfit_style ==
    /\ pure.fn = "pick_outfit_style"
    /\ pure.result = None
    /\ \E r \in PickOutfitStyle(pure.styles, pure.lookback_days, pure.history) :
         pure' = [pure EXCEPT !.result = [value |-> r]]
    /\ UNCHANGED <<generating, calls, store, lastOp, view, sched, bot>>

InitPick ==
    /\ generating = FALSE
    /\ calls = [c \in Calls |-> IdleCall]
    /\ store = StoreOver(NoFile)
    /\ lastOp = NoOp
    /\ view = NoView
    /\ \E styles \in StylePools, n \in 0..MaxLookback :
         \E history \in [1..MaxLookback -> UNION {HistoryEntries(d) : d \in 1..MaxLookback}] :
            /\ \A i \in 1..MaxLookback : history[i] \in HistoryEntries(i)
            /\ pure = [fn |-> "pick_outfit_style", styles |-> styles,
                       lookback_days |-> n, history |-> history, result |-> None]
    /\ sched = NoSched
    /\ bot = NoBot

NextPick == pick_outfit_style

SpecPick == InitPick /\ [][NextPick]_vars

\* -------------------------------------------------------- _validate_payload

\* The outfit texts a payload may carry: empty, blank, without marker, the
\* three marker forms, blanks around marker, colon and style, text after the
\* style on the same line (after a blank, and glued to it), the style on the
\* line after the marker, a half-bracketed marker, a marker on the second
\* line, no colon, and other styles.
ValidateOutfits ==
    {<<>>,
     <<"sp", "NL">>,
     <<"x">>,
     <<"style", ":", "A">>,
     <<"LB", "style", "RB", ":", "A">>,
     <<"[", "style", "]", ":", "A">>,
     <<"sp", "style", "sp", ":", "sp", "A", "NL", "x">>,
     <<"style", ":", "A", "sp", "x">>,
     <<"style", ":", "A", "x">>,
     <<"style", ":", "NL", "A">>,
     <<"style", "NL", ":", "A", "NL", "x">>,
     <<"LB", "style", ":", "A">>,
     <<"x", "NL", "style", ":", "A">>,
     <<"style", "A">>,
     <<"style", ":", "a">>,
     <<"style", ":", "B">>}

ValidateSchedules == {<<>>, <<"sp", "NL">>, <<"work">>}

\* The outfit_style a payload may carry.
ValidateStyles == {<<>>, <<"A">>, <<"sp", "A", "sp">>, <<"a">>, <<"B">>, <<"A", "x">>}

\* The payloads _validate_payload may get: None, {}, and objects.
ValidatePayloads ==
    {None, EmptyDict}
    \cup {[outfit |-> o, schedule |-> sc, outfit_style |-> st] :
            o \in ValidateOutfits, sc \in ValidateSchedules, st \in ValidateStyles}

\* ctx.outfit_style: none, blank, a style, a style with a blank after it.
CtxStyles == {<<>>, <<"sp">>, <<"A">>, <<"A", "sp">>}

\* _validate_payload(payload, ctx) returns.
validate_payload ==
    /\ pure.fn = "validate_payload"
    /\ pure.result = None
    /\ pure' = [pure EXCEPT !.result = ValidatePayload(pure.payload, pure.ctx_style)]
    /\ UNCHANGED <<generating, calls, store, lastOp, view, sched, bot>>

InitValidate ==
    /\ generating = FALSE
    /\ calls = [c \in Calls |-> IdleCall]
    /\ store = StoreOver(NoFile)
    /\ lastOp = NoOp
    /\ view = NoView
    /\ \E payload \in ValidatePayloads, ctx_style \in CtxStyles :
         pure = [fn |-> "validate_payload", payload |-> payload,
                 ctx_style |-> ctx_style, result |-> None]
    /\ sched = NoSched
    /\ bot = NoBot

NextValidate == validate_payload

SpecValidate == InitValidate /\ [][NextValidate]_vars

\* ------------------------------------------------------------ LifeScheduler

\* A schedule_time text: the number of its ":"-separated parts, whether int()
\* reads them all, and (for two readable parts) their values.
TimeText(hour, minute) == [parts |-> 2, numeric |-> TRUE, hour |-> hour, minute |-> minute]
WordsText == [parts |-> 2, numeric |-> FALSE, hour |-> 0, minute |-> 0]
OnePartText == [parts |-> 1, numeric |-> TRUE, hour |-> 7, minute |-> 0]

\* The texts a caller may pass: hours and minutes inside and just outside the
\* ranges, and two texts that are no HH:MM.
TimeTexts ==
    {TimeText(h, m) : h \in {0, 7, 23, 24}, m \in {0, 59, 60}}
    \cup {WordsText, OnePartText}

\* `hour, minute = map(int, text.split(":"))` raises ValueError.
ParseRaises(t) == t.parts # 2 \/ ~t.numeric

\* The cron trigger (add_job, job.reschedule) rejects fields outside their
\* ranges with ValueError.
CronRaises(hour, minute) == ~(hour \in 0..23 /\ minute \in 0..59)

\* The configuration after LifeScheduler.__init__: in memory and as saved; no
\* job yet; last is the argument of the last update_schedule_time call.
SchedOver(t) == [started |-> FALSE, config |-> t, saved |-> t, job |-> None, last |-> None]

\* LifeScheduler.start: any exception is logged and leaves self.job as None.
start ==
    /\ ~sched.started
    /\ sched' = [sched EXCEPT
                   !.started = TRUE,
                   !.job = IF ParseRaises(sched.config)
                              \/ CronRaises(sched.config.hour, sched.config.minute)
                           THEN None
                           ELSE [hour |-> sched.config.hour, minute |-> sched.config.minute]]
    /\ UNCHANGED <<generating, calls, store, lastOp, view, pure, bot>>

\* LifeScheduler.update_schedule_time(new_time); save_ok tells whether
\* config.save_config() returns. The assignments run in the order of the
\* code, and the except clause swallows whatever raises.
update_schedule_time(new_time, save_ok) ==
    /\ sched' =
         IF new_time = sched.config \/ ParseRaises(new_time)
         THEN [sched EXCEPT !.last = new_time]
         ELSE IF ~save_ok
         THEN [sched EXCEPT !.last = new_time, !.config = new_time]
         ELSE IF sched.job = None \/ CronRaises(new_time.hour, new_time.minute)
         THEN [sched EXCEPT !.last = new_time, !.config = new_time, !.saved = new_time]
         ELSE [sched EXCEPT !.last = new_time, !.config = new_time, !.saved = new_time,
                            !.job = [hour |-> new_time.hour, minute |-> new_time.minute]]
    /\ UNCHANGED <<generating, calls, store, lastOp, view, pure, bot>>

InitSched ==
    /\ generating = FALSE
    /\ calls = [c \in Calls |-> IdleCall]
    /\ store = StoreOver(NoFile)
    /\ lastOp = NoOp
    /\ view = NoView
    /\ pure = NoPure
    /\ sched = SchedOver(TimeText(7, 0))
    /\ bot = NoBot

NextSched ==
    \/ start
    \/ \E new_time \in TimeTexts, save_ok \in BOOLEAN : update_schedule_time(new_time, save_ok)

SpecSched == InitSched /\ [][NextSched]_vars

\* ------------------------------------------------- the plugin (src/main.py)

\* The plugin keeps schedule_data (a dict: today's entry under its date, the
\* week plans under "week_plans"), failed_dates and generation_lock. Its
\* coroutines are cut at the awaits that matter: waiting for generation_lock,
\* the model call (the persona, weather and chat awaits before it change
\* nothing) and _save_data.

WEEKDAY_NAMES ==
    {"monday", "tuesday", "wednesday", "thursday", "friday", "saturday", "sunday"}

\* The keys of WEEK_TEMPLATES.
WEEK_TEMPLATES == {"regular", "sprint", "relax"}

\* WEEK_TEMPLATES.get(template_id, WEEK_TEMPLATES["regular"])
TemplateOf(template_id) ==
    IF template_id \in WEEK_TEMPLATES THEN template_id ELSE "regular"

\* A week plan, by where each of its two mappings comes from and the weekday
\* names it resolves. A template's hints and suggested_activities hold all 7.
TemplatePlan(template_id) ==
    [source |-> TemplateOf(template_id), daily_hints |-> WEEKDAY_NAMES,
     suggested_activities |-> WEEKDAY_NAMES]

\* The objects the model may answer the week prompt with: both mappings
\* complete, a weekday missing from each, and no mappings at all.
ModelPlans ==
    {[source |-> "model", daily_hints |-> WEEKDAY_NAMES,
      suggested_activities |-> WEEKDAY_NAMES],
     [source |-> "model", daily_hints |-> WEEKDAY_NAMES \ {"sunday"},
      suggested_activities |-> WEEKDAY_NAMES \ {"saturday"}],
     [source |-> "model", daily_hints |-> {}, suggested_activities |-> {}]}

\* How the model call of a generation ends: no provider is configured,
\* text_chat raises, the completion holds no JSON object (or an empty one), or
\* it holds an object.
ChatOutcomes == {"no_provider", "raised", "no_json", "object"}

\* A variant that stores a sentinel entry when the generation fails.
DailyEntry_Sentinel(out, t) ==
    IF out = "object" THEN [origin |-> "generated", by |-> t]
    ELSE [origin |-> "sentinel", by |-> t]

\* _do_generate_daily, lines 306-323: the entry it stores under the date and
\* returns, or None when nothing is stored.
DailyEntry(out, t) ==
    IF out = "object" THEN [origin |-> "generated", by |-> t] ELSE None

\* _do_generate_week_plan, lines 339-349: the plan it stores, or None.
WeekResult(out, plan, template_id) ==
    IF out \in {"no_provider", "raised"} THEN None
    ELSE IF out = "no_json" THEN TemplatePlan(template_id)
    ELSE plan

\* A coroutine of the plugin that has not started. prompt is what
\* on_llm_request appended to req.system_prompt (None: nothing), own whether
\* the request's session id starts with "life_scheduler", template the
\* template_id argument, result what the generation returned, hook what
\* on_llm_request did with the request of the task's own model call ("none":
\* it was not called with it).
BotTask(kind) ==
    [kind |-> kind, pc |-> "idle", result |-> None, prompt |-> None, own |-> FALSE,
     template |-> "regular", hook |-> "none"]

\* The plugin after __init__ over a data file holding `entry` for today;
\* lastgen is how the latest daily generation for today ended, shown the plan
\* _get_week_plan returned last.
BotOver(entry, default_week_template, kinds) ==
    [loaded |-> TRUE, data |-> entry, week |-> None,
     disk |-> [kind |-> "json", data |-> entry, week |-> None],
     failed |-> FALSE, owner |-> "free", waiters |-> <<>>,
     default_week_template |-> default_week_template,
     lastgen |-> "none", shown |-> None,
     tasks |-> [t \in DOMAIN kinds |-> BotTask(kinds[t])]]

\* generation_lock is released.
Release(b) == [b EXCEPT !.owner = "free"]

\* The end of on_llm_request: the entry for today, when there is one, is
\* appended to the system prompt.
Inject(b, t) ==
    [b EXCEPT !.tasks[t].pc = "done",
              !.tasks[t].prompt = IF b.data # None THEN [inject |-> b.data] ELSE None]

\* Task t has acquired generation_lock: its code up to the next await.
Locked(b, t) ==
    LET b1 == [b EXCEPT !.owner = t]
        kind == b.tasks[t].kind
    IN CASE kind = "request" ->
              IF b.data = None THEN [b1 EXCEPT !.tasks[t].pc = "llm"]
              ELSE Inject(Release(b1), t)
         [] kind = "daily" -> [b1 EXCEPT !.tasks[t].pc = "llm"]
         [] kind = "regenerate" ->
              [b1 EXCEPT !.failed = FALSE, !.data = None, !.tasks[t].pc = "llm"]
         [] OTHER -> [b1 EXCEPT !.tasks[t].pc = "week_llm"]

\* `async with self.generation_lock`: taken at once when it is free and nobody
\* waits, else the task queues (asyncio.Lock wakes its waiters in order).
Enter(b, t) ==
    IF b.owner = "free" /\ b.waiters = <<>> THEN Locked(b, t)
    ELSE [b EXCEPT !.waiters = Append(@, t), !.tasks[t].pc = "wait"]

\* _do_generate_daily has returned to its caller: on_llm_request notes a
\* failure in failed_dates; every caller leaves the lock.
AfterDaily(b, t) ==
    IF b.tasks[t].kind = "request"
    THEN Inject(Release([b EXCEPT !.failed = @ \/ b.tasks[t].result = None]), t)
    ELSE Release([b EXCEPT !.tasks[t].pc = "done"])

\* The unchanged variables of a plugin step.
notBot == <<generating, calls, store, lastOp, view, pure, sched>>

\* on_llm_request(event, req)
on_llm_request(t, own) ==
    /\ t \in DOMAIN bot.tasks
    /\ bot.tasks[t].kind = "request"
    /\ bot.tasks[t].pc = "idle"
    /\ bot' = LET b == [bot EXCEPT !.tasks[t].own = own]
              IN IF own THEN [b EXCEPT !.tasks[t].pc = "done"]
                 ELSE IF b.data = None /\ ~b.failed THEN Enter(b, t)
                 ELSE Inject(b, t)
    /\ UNCHANGED notBot

\* _daily_task (the cron job)
daily_task(t) ==
    /\ t \in DOMAIN bot.tasks
    /\ bot.tasks[t].kind = "daily"
    /\ bot.tasks[t].pc = "idle"
    /\ bot' = Enter(bot, t)
    /\ UNCHANGED notBot

\* life_command, action "regenerate"
regenerate(t) ==
    /\ t \in DOMAIN bot.tasks
    /\ bot.tasks[t].kind = "regenerate"
    /\ bot.tasks[t].pc = "idle"
    /\ bot' = Enter(bot, t)
    /\ UNCHANGED notBot

\* _weekly_task (the cron job): _do_generate_week_plan() with the configured
\* default template.
weekly_task(t) ==
    /\ t \in DOMAIN bot.tasks
    /\ bot.tasks[t].kind = "weekly"
    /\ bot.tasks[t].pc = "idle"
    /\ bot' = Enter([bot EXCEPT !.tasks[t].template = bot.default_week_template], t)
    /\ UNCHANGED notBot

\* life_command, action "newweek": a template id that is no key of
\* WEEK_TEMPLATES is replaced by the configured default.
newweek(t, template_id) ==
    /\ t \in DOMAIN bot.tasks
    /\ bot.tasks[t].kind = "newweek"
    /\ bot.tasks[t].pc = "idle"
    /\ bot' = Enter([bot EXCEPT !.tasks[t].template =
                        IF template_id \in WEEK_TEMPLATES THEN template_id
                        ELSE bot.default_week_template], t)
    /\ UNCHANGED notBot

\* A waiting task gets generation_lock.
acquire(t) ==
    /\ t \in DOMAIN bot.tasks
    /\ bot.tasks[t].pc = "wait"
    /\ bot.owner = "free"
    /\ Head(bot.waiters) = t
    /\ bot' = Locked([bot EXCEPT !.waiters = Tail(@)], t)
    /\ UNCHANGED notBot

\* _do_generate_daily: the model call ends. An object is stored under today's
\* date and _save_data is awaited; otherwise None is returned.
text_chat_daily(t, out) ==
    /\ t \in DOMAIN bot.tasks
    /\ bot.tasks[t].pc = "llm"
    /\ bot' = LET entry == DailyEntry(out, t)
              IN IF entry # None
                 THEN [bot EXCEPT !.data = entry, !.lastgen = "ok",
                                  !.tasks[t].result = entry, !.tasks[t].pc = "save"]
                 ELSE AfterDaily([bot EXCEPT !.lastgen = "failed",
                                             !.tasks[t].result = None], t)
    /\ UNCHANGED notBot

\* _do_generate_week_plan: the model call ends. The plan is stored under the
\* week id and _save_data is awaited; without provider, or when the call
\* raises, None is returned.
text_chat_week(t, out, plan) ==
    /\ t \in DOMAIN bot.tasks
    /\ bot.tasks[t].pc = "week_llm"
    /\ bot' = LET result == WeekResult(out, plan, bot.tasks[t].template)
              IN IF result # None
                 THEN [bot EXCEPT !.week = result, !.tasks[t].result = result,
                                  !.tasks[t].pc = "save"]
                 ELSE Release([bot EXCEPT !.tasks[t].pc = "done"])
    /\ UNCHANGED notBot

\* _save_data ends: the whole schedule_data was written, the file could not be
\* opened, or the write stopped after the file was truncated. Errors are
\* logged only. Then the generation returns its result.
save_data(t, out) ==
    /\ t \in DOMAIN bot.tasks
    /\ bot.tasks[t].pc = "save"
    /\ bot' = LET b == [bot EXCEPT !.disk =
                          CASE out = "ok" -> [kind |-> "json", data |-> bot.data,
                                              week |-> bot.week]
                            [] out = "write_failed" -> [kind |-> "corrupt", data |-> None,
                                                        week |-> None]
                            [] OTHER -> @]
              IN IF b.tasks[t].kind \in {"weekly", "newweek"}
                 THEN Release([b EXCEPT !.tasks[t].pc = "done"])
                 ELSE AfterDaily(b, t)
    /\ UNCHANGED notBot

\* _get_week_plan: the stored plan of this week, else the default template's.
WeekPlan(b) ==
    IF b.week # None THEN b.week ELSE TemplatePlan(b.default_week_template)

\* _get_week_plan() is called (by the "week" command, by a generation).
get_week_plan ==
    /\ bot.loaded
    /\ bot' = [bot EXCEPT !.shown = WeekPlan(bot)]
    /\ UNCHANGED notBot

\* The entry the data file holds for today when the plugin starts: none, or
\* one that an earlier run generated.
FileEntries == {None, [origin |-> "generated", by |-> "earlier run"]}

InitBot ==
    /\ generating = FALSE
    /\ calls = [c \in Calls |-> IdleCall]
    /\ store = StoreOver(NoFile)
    /\ lastOp = NoOp
    /\ view = NoView
    /\ pure = NoPure
    /\ sched = NoSched
    /\ \E entry \in FileEntries :
         bot = BotOver(entry, "regular",
                       [t \in {"req1", "req2", "daily", "regen"} |->
                          CASE t = "daily" -> "daily"
                            [] t = "regen" -> "regenerate"
                            [] OTHER -> "request"])

SaveDataOutcomes == {"ok", "open_failed", "write_failed"}

\* The names of the plugin's coroutines.
BotTasks == {"req1", "req2", "daily", "regen", "weekly", "newweek"}

NextBot ==
    \/ \E t \in BotTasks, own \in BOOLEAN : on_llm_request(t, own)
    \/ \E t \in BotTasks : daily_task(t)
    \/ \E t \in BotTasks : regenerate(t)
    \/ \E t \in BotTasks : acquire(t)
    \/ \E t \in BotTasks, out \in ChatOutcomes : text_chat_daily(t, out)
    \/ \E t \in BotTasks, out \in SaveDataOutcomes : save_data(t, out)

SpecBot == InitBot /\ [][NextBot]_vars

InitWeek ==
    /\ generating = FALSE
    /\ calls = [c \in Calls |-> IdleCall]
    /\ store = StoreOver(NoFile)
    /\ lastOp = NoOp
    /\ view = NoView
    /\ pure = NoPure
    /\ sched = NoSched
    /\ \E default_week_template \in WEEK_TEMPLATES \cup {"holiday"} :
         bot = BotOver(None, default_week_template,
                       [t \in {"weekly", "newweek"} |-> t])

NextWeek ==
    \/ \E t \in BotTasks : weekly_task(t)
    \/ \E t \in BotTasks, template_id \in {"sprint", ""} : newweek(t, template_id)
    \/ \E t \in BotTasks : acquire(t)
    \/ \E t \in BotTasks, out \in ChatOutcomes, plan \in ModelPlans :
          text_chat_week(t, out, plan)
    \/ \E t \in BotTasks, out \in SaveDataOutcomes : save_data(t, out)
    \/ get_week_plan

SpecWeek == InitWeek /\ [][NextWeek]_vars

\* ------------------------------- _extract_json_obj, extract_json_from_text

\* The longest text, in pieces, handed to the extraction functions.
MaxPieces == 4

MaxOf(S) == CHOOSE x \in S : \A y \in S : x >= y

\* A model answer is a sequence of tokens: "{" and "}", "q" a double quote,
\* "bs" a backslash, ":" a colon, "x" the digit 1, "F" a Markdown fence (three
\* backticks), "json" the word after a fence, "NL" a line break. The pieces a
\* text is made of are the single tokens and a few longer ones: a fence with
\* its word, keys with their colon (empty, holding a closing brace, holding an
\* escaped quote and a closing brace), and a string holding an opening brace.
JsonPieces ==
    {<<"{">>, <<"}">>, <<"q">>, <<"bs">>, <<":">>, <<"x">>, <<"F">>, <<"NL">>,
     <<"F", "json">>,
     <<"q", "q", ":">>,
     <<"q", "}", "q", ":">>,
     <<"q", "bs", "q", "}", "q", ":">>,
     <<"q", "{", "q">>}

RECURSIVE Flatten(_)
Flatten(ps) == IF ps = <<>> THEN <<>> ELSE Head(ps) \o Flatten(Tail(ps))

JsonTexts ==
    {Flatten(ps) : ps \in UNION {[1..n -> JsonPieces] : n \in 0..MaxPieces}}

\* `^` under re.MULTILINE
AtLineStart(t, i) == i = 1 \/ t[i - 1] = "NL"

\* `^<word>\s*` at position i: the position after the match, or 0.
LineStartMatch(t, word, i) ==
    IF /\ AtLineStart(t, i)
       /\ i + Len(word) - 1 <= Len(t)
       /\ SubSeq(t, i, i + Len(word) - 1) = word
    THEN SkipSpaces(t, i + Len(word))
    ELSE 0

\* "```\s*$" under re.MULTILINE at position i: the position after the match, or
\* 0. The greedy `\s*` gives back blanks until the end of the text or a line
\* break follows.
LineEndMatch(t, i) ==
    LET j   == SkipSpaces(t, i + 1)
        nls == {p \in (i + 1)..(j - 1) : t[p] = "NL"}
    IN IF At(t, i) # "F" THEN 0
       ELSE IF j > Len(t) THEN j
       ELSE IF nls = {} THEN 0
       ELSE MaxOf(nls)

\* One fence pattern at position i: the position after its match, or 0. "any"
\* is the alternation of the three, in the order it is written.
FenceMatch(t, rule, i) ==
    CASE rule = "start_json" -> LineStartMatch(t, <<"F", "json">>, i)
      [] rule = "start"      -> LineStartMatch(t, <<"F">>, i)
      [] rule = "end"        -> LineEndMatch(t, i)
      [] OTHER ->
            IF LineStartMatch(t, <<"F", "json">>, i) # 0
            THEN LineStartMatch(t, <<"F", "json">>, i)
            ELSE IF LineStartMatch(t, <<"F">>, i) # 0
            THEN LineStartMatch(t, <<"F">>, i)
            ELSE LineEndMatch(t, i)

\* re.sub(pattern, "", t, flags=re.MULTILINE), from position i on.
RECURSIVE ReSub(_, _, _)
ReSub(t, rule, i) ==
    IF i > Len(t) THEN <<>>
    ELSE IF FenceMatch(t, rule, i) # 0 THEN ReSub(t, rule, FenceMatch(t, rule, i))
    ELSE <<t[i]>> \o ReSub(t, rule, i + 1)

\* _extract_json_obj's first four lines: strip, then three substitutions.
CleanText(text) ==
    ReSub(ReSub(ReSub(Strip(text), "start_json", 1), "start", 1), "end", 1)

\* extract_json_from_text's first line: one substitution of the alternation on
\* the stripped text.
CleanTextOnePass(text) == ReSub(Strip(text), "any", 1)

\* text.find("{"), 0 for -1.
FindBrace(t) ==
    IF \E i \in 1..Len(t) : t[i] = "{"
    THEN MinOf({i \in 1..Len(t) : t[i] = "{"})
    ELSE 0

\* json.loads on the candidate: a string from position i (after its opening
\* quote), a value, an object (after its brace) and a member from position i;
\* each gives the position after what it read, or 0 when the text is no JSON.
\* A string ends at the first quote that no backslash precedes; a backslash
\* must be followed by a quote or a backslash here, and a line break inside a
\* string is rejected. A number is a run of digits.
RECURSIVE JsonString(_, _)
JsonString(s, i) ==
    IF i > Len(s) THEN 0
    ELSE IF s[i] = "q" THEN i + 1
    ELSE IF s[i] = "bs"
         THEN IF At(s, i + 1) \in {"q", "bs"} THEN JsonString(s, i + 2) ELSE 0
    ELSE IF s[i] = "NL" THEN 0
    ELSE JsonString(s, i + 1)

RECURSIVE JsonNumber(_, _)
JsonNumber(s, i) == IF At(s, i) = "x" THEN JsonNumber(s, i + 1) ELSE i

RECURSIVE JsonValue(_, _)
RECURSIVE JsonMember(_, _)

JsonObject(s, i) ==
    IF At(s, SkipSpaces(s, i)) = "}" THEN SkipSpaces(s, i) + 1
    ELSE JsonMember(s, SkipSpaces(s, i))

JsonValue(s, i) ==
    LET j == SkipSpaces(s, i)
    IN IF At(s, j) = "q" THEN JsonString(s, j + 1)
       ELSE IF At(s, j) = "x" THEN JsonNumber(s, j)
       ELSE IF At(s, j) = "{" THEN JsonObject(s, j + 1)
       ELSE 0

JsonMember(s, i) ==
    IF At(s, i) # "q" \/ JsonString(s, i + 1) = 0 THEN 0
    ELSE LET c == SkipSpaces(s, JsonString(s, i + 1))
         IN IF At(s, c) # ":" \/ JsonValue(s, c + 1) = 0 THEN 0
            ELSE LET e == SkipSpaces(s, JsonValue(s, c + 1))
                 IN IF At(s, e) = "}" THEN e + 1
                    ELSE IF At(s, e) = "," THEN JsonMember(s, SkipSpaces(s, e + 1))
                    ELSE 0

\* json.loads(s) returns (a value, then only blanks) rather than raising.
JsonLoads(s) ==
    /\ JsonValue(s, 1) # 0
    /\ SkipSpaces(s, JsonValue(s, 1)) = Len(s) + 1

\* The object a JSON text denotes is identified by that text.
JsonObj(s) == [obj |-> s]

\* A scanner for which no character starts an escape.
StartsEscape_Never(ch) == FALSE

\* `elif ch == "\\": escape = True`
StartsEscape(ch) == ch = "bs"

\* The scanning loop from position i with the loop's three variables. When the
\* depth returns to zero the candidate text[start : i + 1] is parsed; if that
\* fails _extract_json_obj returns None (resume = FALSE) and
\* extract_json_from_text goes on scanning (resume = TRUE).
RECURSIVE ScanBraces(_, _, _, _, _, _, _)
ScanBraces(text, begin, i, brace, in_string, escape, resume) ==
    IF i > Len(text) THEN None
    ELSE IF in_string
         THEN IF escape THEN ScanBraces(text, begin, i + 1, brace, TRUE, FALSE, resume)
              ELSE IF StartsEscape(text[i])
                   THEN ScanBraces(text, begin, i + 1, brace, TRUE, TRUE, resume)
              ELSE IF text[i] = "q"
                   THEN ScanBraces(text, begin, i + 1, brace, FALSE, FALSE, resume)
              ELSE ScanBraces(text, begin, i + 1, brace, TRUE, FALSE, resume)
    ELSE IF text[i] = "q" THEN ScanBraces(text, begin, i + 1, brace, TRUE, escape, resume)
    ELSE IF text[i] = "{" THEN ScanBraces(text, begin, i + 1, brace + 1, FALSE, escape, resume)
    ELSE IF text[i] = "}"
         THEN IF brace - 1 # 0
              THEN ScanBraces(text, begin, i + 1, brace - 1, FALSE, escape, resume)
              ELSE IF JsonLoads(SubSeq(text, begin, i)) THEN JsonObj(SubSeq(text, begin, i))
              ELSE IF resume
                   THEN ScanBraces(text, begin, i + 1, 0, FALSE, escape, resume)
              ELSE None
    ELSE ScanBraces(text, begin, i + 1, brace, FALSE, escape, resume)

\* SchedulerGenerator._extract_json_obj(text)
ExtractJsonObjText(text) ==
    LET t == CleanText(text)
    IN IF FindBrace(t) = 0 THEN None
       ELSE ScanBraces(t, FindBrace(t), FindBrace(t), 0, FALSE, FALSE, FALSE)

\* extract_json_from_text(text) of main.py
ExtractJsonFromText(text) ==
    LET t == CleanTextOnePass(text)
    IN IF FindBrace(t) = 0 THEN None
       ELSE ScanBraces(t, FindBrace(t), FindBrace(t), 0, FALSE, FALSE, TRUE)

\* Both functions are applied to the text.
extract_json ==
    /\ pure.fn = "extract_json"
    /\ pure.result = None
    /\ pure' = [pure EXCEPT !.result = [generator |-> ExtractJsonObjText(pure.text),
                                        main      |-> ExtractJsonFromText(pure.text)]]
    /\ UNCHANGED <<generating, calls, store, lastOp, view, sched, bot>>

InitExtract ==
    /\ generating = FALSE
    /\ calls = [c \in Calls |-> IdleCall]
    /\ store = StoreOver(NoFile)
    /\ lastOp = NoOp
    /\ view = NoView
    /\ \E text \in JsonTexts : pure = [fn |-> "extract_json", text |-> text, result |-> None]
    /\ sched = NoSched
    /\ bot = NoBot

NextExtract == extract_json

SpecExtract == InitExtract /\ [][NextExtract]_vars

\* --------------------------------------------------------------- to_date_str

\* The clock is scaled: a second has TicksPerSecond ticks of datetime's
\* resolution (a microsecond), a day SecondsPerDay seconds, and a float
\* timestamp is a multiple of a quarter tick.
TicksPerSecond == 2
SecondsPerDay == 2
QuartersPerTick == 4

DayTicks == SecondsPerDay * TicksPerSecond
QuartersPerSecond == TicksPerSecond * QuartersPerTick

\* The day the epoch (timestamp 0, UTC) starts; the days a date object can
\* hold are Dates (date.min .. date.max).
EpochDay == 1

\* The machine's offsets from UTC, in seconds.
UtcOffsets == {0 - 1, 0, 1}

\* date.isoformat(): the YYYY-MM-DD text of a date is identified by the date's
\* day number.
IsoFormat(day) == [key |-> day]

\* Python's rounding of a timestamp (in quarter ticks) to whole ticks: to the
\* nearest, a tie to the even one.
RoundHalfEven(quarters) ==
    LET k == quarters \div QuartersPerTick
        r == quarters % QuartersPerTick
    IN IF 2 * r < QuartersPerTick THEN k
       ELSE IF 2 * r > QuartersPerTick THEN k + 1
       ELSE IF k % 2 = 0 THEN k ELSE k + 1

\* The values handed to to_date_str: date and datetime objects (naive or
\* aware, at any tick of their day), bool, int and float objects (a float also
\* NaN or infinite), a str and None.
DateLikeValues ==
    {[kind |-> "date", day |-> d] : d \in Dates}
    \cup {[kind |-> "datetime", day |-> d, tick |-> t, aware |-> a] :
            d \in Dates, t \in 0..(DayTicks - 1), a \in BOOLEAN}
    \cup {[kind |-> "bool", quarters |-> s * QuartersPerSecond] : s \in {0, 1}}
    \cup {[kind |-> "int", quarters |-> s * QuartersPerSecond] :
            s \in (0 - SecondsPerDay - 1)..((NDates + 1) * SecondsPerDay)}
    \cup {[kind |-> "float", quarters |-> q] :
            q \in (0 - 2 * QuartersPerSecond)..(NDates * SecondsPerDay * QuartersPerSecond + 2)}
    \cup {[kind |-> "float", special |-> s] : s \in {"nan", "inf"}}
    \cup {[kind |-> "str"], [kind |-> "none"]}

IsNumber(value) == value.kind \in {"bool", "int", "float"}

\* A fromtimestamp that gives the UTC day.
LocalDayOf_Utc(quarters, offset) ==
    EpochDay + (RoundHalfEven(quarters) \div DayTicks)

\* datetime.fromtimestamp(value).date(): the local day of the timestamp rounded
\* to the tick.
LocalDayOf(quarters, offset) ==
    EpochDay + ((RoundHalfEven(quarters) + offset * TicksPerSecond) \div DayTicks)

\* to_date_str(value) on a machine `offset` seconds from UTC: the key, or the
\* exception raised.
ToDateStr(value, offset) ==
    IF value.kind = "datetime" THEN IsoFormat(value.day)
    ELSE IF value.kind = "date" THEN IsoFormat(value.day)
    ELSE IF IsNumber(value)
         THEN IF "special" \in DOMAIN value
              THEN [raises |-> IF value.special = "nan" THEN "ValueError" ELSE "OverflowError"]
              ELSE IF LocalDayOf(value.quarters, offset) \in Dates
                   THEN IsoFormat(LocalDayOf(value.quarters, offset))
                   ELSE [raises |-> "ValueError"]
    ELSE [raises |-> "TypeError"]

\* to_date_str(value) returns or raises.
to_date_str ==
    /\ pure.fn = "to_date_str"
    /\ pure.result = None
    /\ pure' = [pure EXCEPT !.result = ToDateStr(pure.value, pure.offset)]
    /\ UNCHANGED <<generating, calls, store, lastOp, view, sched, bot>>

InitDateStr ==
    /\ generating = FALSE
    /\ calls = [c \in Calls |-> IdleCall]
    /\ store = StoreOver(NoFile)
    /\ lastOp = NoOp
    /\ view = NoView
    /\ \E value \in DateLikeValues, offset \in UtcOffsets :
         pure = [fn |-> "to_date_str", value |-> value, offset |-> offset, result |-> None]
    /\ sched = NoSched
    /\ bot = NoBot

NextDateStr == to_date_str

SpecDateStr == InitDateStr /\ [][NextDateStr]_vars

\* ------------------------- the generator with remove, clear and load callers

\* generate_schedule invocations next to callers that remove records, clear the
\* store or reload it.
NextFrame ==
    \/ \E c \in Calls : generate_schedule(c)
    \/ \E c \in Calls : get_persona(c)
    \/ \E c \in Calls : recent_chats_cid(c)
    \/ \E c \in Calls : recent_chats_conv(c)
    \/ \E c \in Calls : text_chat(c)
    \/ \E c \in Calls : cleanup_lookup(c)
    \/ \E c \in Calls : cleanup_delete(c)
    \/ \E key \in Dates, outcome \in SaveOutcomes : remove(key, outcome)
    \/ \E save \in BOOLEAN, outcome \in SaveOutcomes : clear(save, outcome)
    \/ load

\* The file the store was constructed over holds a generated record for every
\* day.
FrameFiles ==
    {JsonFile(SavePayload([k \in Dates |->
        ScheduleData([date |-> k, outfit |-> <<"coat">>, schedule |-> <<"work">>])]))}

InitFrame ==
    /\ generating = FALSE
    /\ calls = [c \in Calls |-> IdleCall]
    /\ store \in {StoreOver(f) : f \in FrameFiles}
    /\ lastOp = NoOp
    /\ view = NoView
    /\ pure = NoPure
    /\ sched = NoSched
    /\ bot = NoBot

SpecFrame == InitFrame /\ [][NextFrame]_vars

\* -------------------------------------------------------------- _get_history

\* `data.outfit[:40]` and `data.schedule[:60]`
OUTFIT_CUT == 40
SCHEDULE_CUT == 60

\* s[:n]
Prefix(s, n) == SubSeq(s, 1, IF Len(s) < n THEN Len(s) ELSE n)

\* A text of n tokens tok.
Repeated(tok, n) == [i \in 1..n |-> tok]

\* '（无历史记录）'
NoHistory == [sentinel |-> "no history"]

\* A loop that takes records of any status.
HistoryTakes_AnyStatus(data) == data # None

\* `if not data or data.status != "ok": continue`
HistoryTakes(data) == data # None /\ data.status = "ok"

\* The line appended for the record `data` of `date`: the date, the style when
\* the record has one, the cut outfit and the cut schedule.
HistoryLine(date, data) ==
    [date     |-> date,
     style    |-> RecordStyle(data),
     outfit   |-> Prefix(data.outfit, OUTFIT_CUT),
     schedule |-> Prefix(data.schedule, SCHEDULE_CUT)]

\* The loop from day i on: items after `for i in range(i, days + 1)`, where
\* history[i] is data_mgr.get(today - i days).
RECURSIVE HistoryItems(_, _, _, _)
HistoryItems(today, days, history, i) ==
    IF i > days THEN <<>>
    ELSE IF HistoryTakes(history[i])
         THEN <<HistoryLine(today - i, history[i])>> \o HistoryItems(today, days, history, i + 1)
         ELSE HistoryItems(today, days, history, i + 1)

\* _get_history(today) with reference_history_days = days: the lines it joins
\* (the joined text is identified by its lines), or the sentinel.
GetHistory(today, days, history) ==
    IF days <= 0 THEN NoHistory
    ELSE IF HistoryItems(today, days, history, 1) # <<>>
         THEN [lines |-> HistoryItems(today, days, history, 1)]
         ELSE NoHistory

\* The outfit and schedule texts of stored records: short ones, one as long as
\* the cut, one a token longer, and an outfit that names its style.
LongOutfits ==
    {<<"coat">>,
     <<"style", ":", "A", "NL", "x">>,
     Repeated("a", OUTFIT_CUT),
     Repeated("a", OUTFIT_CUT) \o <<"b">>}

LongSchedules == {<<"work">>, Repeated("a", SCHEDULE_CUT) \o <<"b">>}

\* What data_mgr.get answers for day d: nothing, a degraded record, or a
\* generated record.
StoredEntries(d) ==
    {None, FailedRecord(d)}
    \cup {ScheduleData([date |-> d, outfit |-> o, schedule |-> sc]) :
            o \in LongOutfits, sc \in LongSchedules}

\* _get_history(today) returns.
get_history ==
    /\ pure.fn = "get_history"
    /\ pure.result = None
    /\ pure' = [pure EXCEPT !.result = GetHistory(pure.today, pure.days, pure.history)]
    /\ UNCHANGED <<generating, calls, store, lastOp, view, sched, bot>>

\* today is day MaxLookback + 1, the days before it are MaxLookback .. 1.
InitHistory ==
    /\ generating = FALSE
    /\ calls = [c \in Calls |-> IdleCall]
    /\ store = StoreOver(NoFile)
    /\ lastOp = NoOp
    /\ view = NoView
    /\ \E days \in (0 - 1)..MaxLookback :
         \E history \in [1..MaxLookback ->
                            UNION {StoredEntries(d) : d \in 1..MaxLookback}] :
            /\ \A i \in 1..MaxLookback : history[i] \in StoredEntries(MaxLookback + 1 - i)
            /\ pure = [fn |-> "get_history", today |-> MaxLookback + 1, days |-> days,
                       history |-> history, result |-> None]
    /\ sched = NoSched
    /\ bot = NoBot

NextHistory == get_history

SpecHistory == InitHistory /\ [][NextHistory]_vars

\* --------------------------------------------- callers that call repeatedly

\* The caller of an invocation that has ended is ready to call again; it still
\* holds what the ended call gave it.
call_again(c) ==
    /\ calls[c].pc \in {"returned", "rejected", "raised"}
    /\ calls' = [calls EXCEPT ![c] = [IdleCall EXCEPT !.result = calls[c].result]]
    /\ UNCHANGED <<generating, store, lastOp, view, outside>>

NextAgain ==
    \/ \E c \in Calls : generate_schedule(c)
    \/ \E c \in Calls : get_persona(c)
    \/ \E c \in Calls : recent_chats_cid(c)
    \/ \E c \in Calls : recent_chats_conv(c)
    \/ \E c \in Calls : text_chat(c)
    \/ \E c \in Calls : cleanup_lookup(c)
    \/ \E c \in Calls : cleanup_delete(c)
    \/ \E c \in Calls : call_again(c)

SpecAgain == Init /\ [][NextAgain]_vars

\* ------------------------------- generation_lock and the plugin's own requests

\* The session ids of the plugin's model calls (lines 311 and 342), as the
\* prefix "life_scheduler" and the rest.
GEN_SESSION == <<"life_scheduler", "_gen">>

WEEK_SESSION == <<"life_scheduler", "_week">>

\* The session id a task's generation passes to text_chat.
SessionOf(kind) ==
    IF kind \in {"weekly", "newweek"} THEN WEEK_SESSION ELSE GEN_SESSION

\* str.startswith
StartsWith(s, prefix) ==
    Len(s) >= Len(prefix) /\ SubSeq(s, 1, Len(prefix)) = prefix

\* A variant that compares the whole session id.
IsOwnSession_WholeId(session_id) == session_id = <<"life_scheduler">>

\* on_llm_request, line 369: the request is one of the plugin's own.
IsOwnSession(session_id) ==
    session_id # <<>> /\ StartsWith(session_id, <<"life_scheduler">>)

\* on_llm_request is called with the request of task t's own model call while
\* t awaits that call under generation_lock. An own request returns at line
\* 369; any other would wait for the lock its task holds when today has no
\* entry and is not in failed_dates, and would have today's entry appended
\* otherwise.
OwnRequest(b, t) ==
    IF IsOwnSession(SessionOf(b.tasks[t].kind))
    THEN [b EXCEPT !.tasks[t].hook = "returned"]
    ELSE IF b.data = None /\ ~b.failed
    THEN [b EXCEPT !.waiters = Append(@, t), !.tasks[t].pc = "wait_own",
                   !.tasks[t].hook = "generation"]
    ELSE [b EXCEPT !.tasks[t].hook = "injected"]

\* The framework hands the model request of a generation to on_llm_request.
own_llm_request(t) ==
    /\ t \in DOMAIN bot.tasks
    /\ bot.tasks[t].pc \in {"llm", "week_llm"}
    /\ bot.tasks[t].hook = "none"
    /\ bot' = OwnRequest(bot, t)
    /\ UNCHANGED notBot

\* The coroutines that run at the same time.
MaxTasks == 2

\* One coroutine for each path that takes generation_lock.
LockPaths == {"req1", "daily", "regen", "weekly", "newweek"}

\* The plugin with MaxTasks of these coroutines.
InitLock ==
    /\ generating = FALSE
    /\ calls = [c \in Calls |-> IdleCall]
    /\ store = StoreOver(NoFile)
    /\ lastOp = NoOp
    /\ view = NoView
    /\ pure = NoPure
    /\ sched = NoSched
    /\ \E entry \in FileEntries, ts \in SUBSET LockPaths :
         /\ Cardinality(ts) = MaxTasks
         /\ bot = BotOver(entry, "regular",
                          [t \in ts |->
                             CASE t = "req1" -> "request"
                               [] t = "regen" -> "regenerate"
                               [] OTHER -> t])

NextLock ==
    \/ \E t \in BotTasks, own \in BOOLEAN : on_llm_request(t, own)
    \/ \E t \in BotTasks : daily_task(t)
    \/ \E t \in BotTasks : regenerate(t)
    \/ \E t \in BotTasks : weekly_task(t)
    \/ \E t \in BotTasks, template_id \in {"sprint", ""} : newweek(t, template_id)
    \/ \E t \in BotTasks : acquire(t)
    \/ \E t \in BotTasks : own_llm_request(t)
    \/ \E t \in BotTasks, out \in ChatOutcomes : text_chat_daily(t, out)
    \/ \E t \in BotTasks, out \in ChatOutcomes, plan \in ModelPlans :
          text_chat_week(t, out, plan)
    \/ \E t \in BotTasks, out \in SaveDataOutcomes : save_data(t, out)

SpecLock == InitLock /\ [][NextLock]_vars

\* An awaited call of a task ends: the model call returns or raises, _save_data
\* ends, the lock wakes its first waiter.
Returns ==
    \/ \E t \in BotTasks : acquire(t)
    \/ \E t \in BotTasks, out \in ChatOutcomes : text_chat_daily(t, out)
    \/ \E t \in BotTasks, out \in ChatOutcomes, plan \in ModelPlans :
          text_chat_week(t, out, plan)
    \/ \E t \in BotTasks, out \in SaveDataOutcomes : save_data(t, out)

\* Every awaited call eventually ends.
FairSpecLock == SpecLock /\ WF_vars(Returns)

\* ----------------------------------------------------------------- claims

\* Whether the completion invocation c holds passes extraction and validation.
ContentValid(c) ==
    /\ calls[c].chat = "returned"
    /\ ValidatePayload(ExtractJsonObj(calls[c].content), calls[c].style).ok

\* Invocation c is suspended inside _cleanup_session, and this step ends its
\* _call_llm.
CallLlmEnds(c) ==
    /\ calls[c].pc \in {"cleanup", "delete"}
    /\ calls'[c].pc \notin {"cleanup", "delete"}

\* C1: at most one invocation is between setting and clearing the flag; an
\* invocation that arrives while another is there, whatever its date, ends in
\* that same step with the schedule_generating error and without a model call,
\* and one that arrives while none is there enters the pipeline.
C1_OneGenerationAtATime ==
    /\ [](Cardinality({c \in Calls : InPipeline(c)}) <= 1)
    /\ [][\A c \in Calls :
            (calls[c].pc = "idle" /\ calls'[c].pc # "idle") =>
                IF \E d \in Calls : InPipeline(d)
                THEN /\ calls'[c].pc = "rejected"
                     /\ calls'[c].result = [error |-> "schedule_generating"]
                     /\ calls'[c].chatted = {}
                     /\ store' = store
                ELSE calls'[c].pc = "persona"]_vars

\* C1 witness: a call for another date was rejected while a generation is running.
C1_Witness ==
    \E c, d \in Calls :
        /\ calls[c].pc = "rejected"
        /\ InPipeline(d)
        /\ calls[c].date # calls[d].date

\* C2: when an invocation has returned the degraded record, the store holds a
\* record for its date with status failed.
C2_FailureIsPersisted ==
    \A c \in Calls :
        (calls[c].pc = "returned" /\ calls[c].result.status = "failed") =>
            /\ calls[c].date \in DOMAIN store.mem
            /\ store.mem[calls[c].date].status = "failed"

\* C3: when the attempt that ends the pipeline passed validation, the invocation
\* returns a record for its date with status ok, and the store holds that record.
C3_ValidPayloadStored ==
    [][\A c \in Calls :
         (CallLlmEnds(c) /\ ContentValid(c) /\ calls'[c].pc # "text_chat") =>
             /\ calls'[c].pc = "returned"
             /\ calls'[c].result.status = "ok"
             /\ calls'[c].result.date = calls[c].date
             /\ calls[c].date \in DOMAIN store'.mem
             /\ store'.mem[calls[c].date] = calls'[c].result]_vars

\* C4: no exception escapes an admitted invocation: it ends returned, with a
\* record for its date of status ok or failed, and the only error a caller gets
\* is the rejection at the gate.
C4_NeverRaises ==
    \A c \in Calls :
        /\ calls[c].pc # "raised"
        /\ calls[c].pc = "returned" =>
              /\ calls[c].result.status \in {"ok", "failed"}
              /\ calls[c].result.date = calls[c].date
        /\ "error" \in DOMAIN calls[c].result =>
              /\ calls[c].pc = "rejected"
              /\ calls[c].result.error = "schedule_generating"

\* C4 witness: one invocation returned after the model call raised, another
\* after record construction raised.
C4_Witness ==
    \E c, d \in Calls :
        /\ calls[c].pc = "returned" /\ calls[c].logged = "ProviderError"
        /\ calls[d].pc = "returned" /\ calls[d].logged = "TypeError"

\* C5: the flag is set only while an invocation is in the pipeline (so it is
\* clear once that invocation has returned, on every path), a call is rejected
\* only while another invocation is in the pipeline, and, collaborator calls
\* returning or raising, a set flag is eventually cleared.
C5_FlagReleased ==
    /\ [](generating => \E c \in Calls : InPipeline(c))
    /\ [][\A c \in Calls :
            (calls[c].pc = "idle" /\ calls'[c].pc = "rejected") =>
                \E d \in Calls \ {c} : InPipeline(d)]_vars
    /\ generating ~> ~generating

\* C5 witness: after one invocation returned, a later one was admitted.
C5_Witness ==
    \E c, d \in Calls :
        /\ calls[c].pc = "returned"
        /\ InPipeline(d)
        /\ generating

\* C6: an invocation that has returned called data_mgr.set exactly once.
C6_ExactlyOneWrite ==
    \A c \in Calls : calls[c].pc = "returned" => calls[c].writes = 1

\* C7: an invocation issues at most 3 text_chat calls; the first is the initial
\* attempt, and each later one is issued only when the attempt just finished
\* returned a completion that failed extraction or validation (so none follows
\* an attempt that passed).
C7_AtMostThreeModelCalls ==
    /\ [](\A c \in Calls : Cardinality(calls[c].chatted) <= 3)
    /\ [][\A c \in Calls :
            (calls'[c].chatted \ calls[c].chatted # {}) =>
                IF calls[c].chatted = {}
                THEN calls'[c].chatted = {0}
                ELSE /\ calls[c].chat = "returned"
                     /\ ~ContentValid(c)
                     /\ calls'[c].chatted = calls[c].chatted \cup {calls[c].repairs + 1}]_vars

\* C7 witness: the second repair call (the third model call) is in flight.
C7_Witness ==
    \E c \in Calls :
        /\ calls[c].pc = "text_chat"
        /\ calls[c].chatted = {0, 1, 2}

\* C8: when the second repair attempt also fails extraction or validation, the
\* invocation returns the record {date, "generation failed", "generation failed",
\* failed} and leaves the store as it was.
C8_ExhaustedRepairsGiveSentinel ==
    /\ [](\A c \in Calls :
            (calls[c].pc = "returned" /\ calls[c].logged = "ValueError") =>
                calls[c].result = [date |-> calls[c].date, outfit |-> GenerationFailed,
                                   schedule |-> GenerationFailed, status |-> "failed"])
    /\ [][\A c \in Calls :
            (CallLlmEnds(c) /\ calls[c].repairs = 2 /\ calls[c].chat = "returned"
                /\ ~ContentValid(c)) =>
                /\ calls'[c].pc = "returned"
                /\ calls'[c].logged = "ValueError"
                /\ calls'[c].result.outfit = GenerationFailed
                /\ calls'[c].result.schedule = GenerationFailed
                /\ calls'[c].result.status = "failed"
                /\ store' = store]_vars

\* C8 witness: an invocation returned after validation failed for the last time.
C8_Witness ==
    \E c \in Calls : calls[c].pc = "returned" /\ calls[c].logged = "ValueError"

\* C9: _cleanup_session has been called with the sid of every text_chat call
\* that has finished, before _call_llm ends and so before the next attempt; and
\* _call_llm ends as text_chat did, whatever the cleanup did: a completion is
\* handed on to extraction, a model error is the error the except clause gets.
C9_CleanupAfterEveryChat ==
    /\ [](\A c \in Calls :
            InPipeline(c) =>
                calls[c].cleaned =
                    calls[c].chatted \ (IF calls[c].pc = "text_chat"
                                        THEN {calls[c].repairs} ELSE {}))
    /\ [][\A c \in Calls :
            CallLlmEnds(c) =>
                /\ calls[c].repairs \in calls[c].cleaned
                /\ IF calls[c].chat = "raised"
                   THEN calls'[c].pc = "returned" /\ calls'[c].logged = "ProviderError"
                   ELSE \/ calls'[c].pc = "text_chat"
                        \/ /\ calls'[c].pc = "returned"
                           /\ calls'[c].logged \in {"ValueError", "TypeError", "RuntimeError"}]_vars

\* C9 witness: the first _call_llm returned with its session cleaned up and the
\* first repair call is in flight.
C9_Witness ==
    \E c \in Calls :
        /\ calls[c].pc = "text_chat"
        /\ calls[c].repairs = 1
        /\ calls[c].cleaned = {0}

\* C10: after a set, a remove of a stored key or a clear(save=True) that
\* returned normally, the canonical file holds exactly the items of the
\* in-memory map and decodes to it; and a set that returned normally left the
\* new record under its date and every other key as it was.
C10_FileEqualsMemory ==
    /\ []((lastOp.op \in {"set", "remove", "clear"} /\ lastOp.ok) =>
            /\ store.file.kind = "json"
            /\ DOMAIN store.file.doc = DOMAIN store.mem
            /\ Load(store.file) = store.mem)
    /\ [][(lastOp'.op = "set" /\ lastOp'.ok) =>
            /\ lastOp'.arg.date \in DOMAIN store'.mem
            /\ store'.mem[lastOp'.arg.date] = lastOp'.arg
            /\ \A k \in (DOMAIN store.mem \cup DOMAIN store'.mem) \ {lastOp'.arg.date} :
                  /\ k \in DOMAIN store.mem
                  /\ k \in DOMAIN store'.mem
                  /\ store'.mem[k] = store.mem[k]]_vars

\* C10 witness: a set returned normally with another day's record in the map.
C10_Witness ==
    /\ lastOp.op = "set"
    /\ lastOp.ok
    /\ \E k \in DOMAIN store.mem : k # lastOp.arg.date

\* C11: a step changes the canonical file only by a save that returned, and
\* then to the complete serialization of the map of that moment; a set, remove
\* or clear whose save stopped at any step (directory, write, rename) leaves
\* the canonical file as it was, whatever it left in the temporary file; so
\* unparsable content never appears under the canonical path.
C11_CanonicalFileNeverPartial ==
    /\ [][store'.file # store.file =>
            /\ lastOp'.op \in {"set", "remove", "clear"}
            /\ lastOp'.ok
            /\ store'.file = JsonFile(SavePayload(store'.mem))]_vars
    /\ [][(lastOp'.op \in {"set", "remove", "clear"} /\ ~lastOp'.ok) =>
            /\ store'.file = store.file
            /\ store'.tmp \in {store.tmp, Corrupt, JsonFile(SavePayload(store'.mem))}]_vars
    /\ [][store'.file.kind = "corrupt" => store.file.kind = "corrupt"]_vars

\* C11 witness: a set stopped while writing: the temporary file is partial and
\* the canonical file still holds the earlier map.
C11_Witness ==
    /\ lastOp.op = "set"
    /\ ~lastOp.ok
    /\ store.tmp = Corrupt
    /\ store.file.kind = "json"
    /\ Load(store.file) # store.mem

\* C12: constructing a ScheduleDataManager does not raise.
C12_ConstructionNeverRaises ==
    lastOp.op = "construct" => lastOp.ok

\* C13: a fresh store constructed over the file a save of the current map
\* writes holds a map with the same keys and equal records; and load() right
\* after a set that returned leaves the map as it was.
C13_RoundTrip ==
    /\ [](Constructed =>
            /\ ~LoadRaises(Save(store, "ok").file)
            /\ DOMAIN StoreOver(Save(store, "ok").file).mem = DOMAIN store.mem
            /\ \A k \in DOMAIN store.mem :
                  StoreOver(Save(store, "ok").file).mem[k] = store.mem[k])
    /\ [][(lastOp.op = "set" /\ lastOp.ok /\ lastOp'.op = "load") =>
            /\ lastOp'.ok
            /\ store'.mem = store.mem]_vars

\* C13 witness: a map with a generated and a degraded record, built by set
\* calls, has been saved and loaded again.
C13_Witness ==
    /\ lastOp.op = "load"
    /\ store.file = JsonFile(SavePayload(store.mem))
    /\ \E j, k \in DOMAIN store.mem :
          store.mem[j].status = "failed" /\ store.mem[k].status = "ok"

\* C14: nothing the caller does to the mapping all() returned (adding a key,
\* deleting a key, assigning a field of a record in it) changes the store's map,
\* which is what later has/get/all calls read.
C14_ViewIsDefensiveCopy ==
    [][lastOp'.op \in {"view_add", "view_del", "view_write"} =>
         store'.mem = store.mem]_vars

\* C15: has, get and all change neither the in-memory map nor the canonical
\* file nor the temporary file, and answer from the map: has tells whether the
\* key is stored, get returns the stored record or None.
C15_ReadsArePure ==
    [][lastOp'.op \in {"has", "get", "all"} =>
         /\ store' = store
         /\ lastOp'.op = "has" =>
               lastOp'.arg.found = (lastOp'.arg.date \in DOMAIN store.mem)
         /\ lastOp'.op = "get" =>
               lastOp'.arg.rec = IF lastOp'.arg.date \in DOMAIN store.mem
                                 THEN store.mem[lastOp'.arg.date] ELSE None
         /\ lastOp'.op = "all" => view'.map = store.mem]_vars

\* C15 witness: get returned a stored record while the canonical file holds
\* something else than the map (no file at all, or an older map).
C15_Witness ==
    /\ lastOp.op = "get"
    /\ lastOp.arg.rec # None
    /\ store.file # JsonFile(SavePayload(store.mem))

\* The stored generated records of the window, and whether each of them has an
\* outfit the validator accepts for style A.
C16_WindowAllStyleA ==
    LET ok == {i \in 1..pure.lookback_days :
                 pure.history[i] # None /\ pure.history[i].status = "ok"}
    IN /\ ok # {}
       /\ \A i \in ok : OutfitMatchesStyle(Strip(pure.history[i].outfit), <<"A">>)

\* C16: with a pool of at least 2 styles holding A, and a window of at least
\* one day in which every generated record's outfit is accepted for style A,
\* the pick is a member of the pool and is not A (some other style is unused).
C16_NoRepeatedStyle ==
    (/\ pure.fn = "pick_outfit_style"
     /\ pure.result # None
     /\ Len(pure.styles) >= 2
     /\ <<"A">> \in Range(pure.styles)
     /\ pure.lookback_days >= 1
     /\ C16_WindowAllStyleA)
    => /\ pure.result.value \in Range(pure.styles)
       /\ pure.result.value # <<"A">>

\* C17: an update_schedule_time call whose argument is not HH:MM with hour in
\* 0..23 and minute in 0..59 leaves the configured time, the saved
\* configuration and the cron job as they were.
C17_InvalidTimeChangesNothing ==
    [][(/\ sched'.last # None
        /\ sched'.started = sched.started
        /\ (ParseRaises(sched'.last)
              \/ CronRaises(sched'.last.hour, sched'.last.minute))) =>
         /\ sched'.config = sched.config
         /\ sched'.saved = sched.saved
         /\ sched'.job = sched.job]_vars

\* C18 as stated: a request that on_llm_request finishes handling while the
\* latest generation for today has failed gets nothing appended to its system
\* prompt.
C18_NoInjectionAfterFailure ==
    [][\A t \in DOMAIN bot.tasks :
         (/\ bot.tasks[t].kind = "request"
          /\ bot.tasks[t].pc # "done"
          /\ bot'.tasks[t].pc = "done"
          /\ bot'.lastgen = "failed") =>
            bot'.tasks[t].prompt = None]_vars

\* C18: what on_llm_request appends is today's stored entry, which a generation
\* that succeeded (in this run or an earlier one) produced: a failed generation
\* stores nothing, so no failure text is ever injected. When it finishes
\* handling a request while no entry for today is stored (the generation
\* failed and left none), the system prompt is unchanged; and a request of the
\* plugin's own sessions is never changed.
C18_InjectsOnlyGeneratedEntry ==
    /\ [](bot.data # None => bot.data.origin = "generated")
    /\ [][\A t \in DOMAIN bot.tasks :
            (/\ bot.tasks[t].kind = "request"
             /\ bot.tasks[t].pc # "done"
             /\ bot'.tasks[t].pc = "done") =>
               /\ bot'.tasks[t].prompt # None =>
                     /\ ~bot'.tasks[t].own
                     /\ bot'.data # None
                     /\ bot'.tasks[t].prompt = [inject |-> bot'.data]
                     /\ bot'.data.origin = "generated"
               /\ (bot'.data = None \/ bot'.tasks[t].own) =>
                     bot'.tasks[t].prompt = None
               /\ (bot.tasks[t].pc \in {"llm", "save"} /\ bot'.tasks[t].result = None
                     /\ bot'.data = None) =>
                     bot'.failed]_vars

\* C18 witness: a request whose own generation failed was finished with its
\* prompt unchanged, and another one got the entry of a later successful
\* generation.
C18_Witness ==
    \E t, u \in DOMAIN bot.tasks :
        /\ bot.tasks[t].kind = "request" /\ bot.tasks[t].pc = "done"
        /\ ~bot.tasks[t].own /\ bot.tasks[t].prompt = None
        /\ bot.failed
        /\ bot.tasks[u].kind = "request" /\ bot.tasks[u].pc = "done"
        /\ bot.tasks[u].prompt # None

\* C19: the stored week plan and every plan _get_week_plan returns resolve all
\* 7 weekday names in daily_hints and in suggested_activities.
C19_WeekPlanResolvesAllDays ==
    /\ bot.week # None =>
          /\ bot.week.daily_hints = WEEKDAY_NAMES
          /\ bot.week.suggested_activities = WEEKDAY_NAMES
    /\ bot.shown # None =>
          /\ bot.shown.daily_hints = WEEKDAY_NAMES
          /\ bot.shown.suggested_activities = WEEKDAY_NAMES

\* The text up to its first line break.
C20_FirstLine(t) ==
    LET nl == {j \in 1..Len(t) : t[j] = "NL"}
    IN IF nl = {} THEN t ELSE SubSeq(t, 1, MinOf(nl) - 1)

C20_AllSpace(t, from, to) == \A j \in from..to : IsSpace(t[j])

\* The text t consists of: whitespace, a style marker (bare, in full-width
\* brackets or in square brackets), whitespace, a colon, whitespace, the style
\* S, and then either nothing or a whitespace character and anything.
C20_MarkerThenStyle(t, S) ==
    \E a, b, c, d \in 0..Len(t) :
        /\ a <= b /\ b <= c /\ c < d
        /\ C20_AllSpace(t, 1, a)
        /\ SubSeq(t, a + 1, b) \in
              {<<"style">>, <<"LB", "style", "RB">>, <<"[", "style", "]">>}
        /\ C20_AllSpace(t, b + 1, c)
        /\ t[c + 1] = ":"
        /\ C20_AllSpace(t, c + 2, d)
        /\ d + Len(S) <= Len(t)
        /\ SubSeq(t, d + 1, d + Len(S)) = S
        /\ (d + Len(S) = Len(t) \/ IsSpace(t[d + Len(S) + 1]))

\* What C20 says of a validation that has returned; first_line tells whether
\* the marker and the style are looked for on the first line of the trimmed
\* outfit only, or in the whole of it.
C20_Statement(first_line) ==
    (pure.fn = "validate_payload" /\ pure.result # None) =>
        LET p == pure.payload
            S == Strip(pure.ctx_style)
        IN IF Falsy(p) THEN ~pure.result.ok
           ELSE IF Strip(p.outfit) = <<>> \/ Strip(p.schedule) = <<>>
                THEN ~pure.result.ok
           ELSE IF S = <<>> THEN pure.result.ok
           ELSE /\ pure.result.ok <=>
                      (/\ Strip(p.outfit_style) = S
                       /\ C20_MarkerThenStyle(
                             IF first_line THEN C20_FirstLine(Strip(p.outfit))
                             ELSE Strip(p.outfit), S))
                /\ Strip(p.outfit_style) # S =>
                      pure.result.reason = "outfit_style mismatch"

RECURSIVE C21_Before(_, _, _)
C21_Before(t, begin, i) ==
    IF i = begin THEN [lit |-> FALSE, esc |-> FALSE, depth |-> 0]
    ELSE LET b  == C21_Before(t, begin, i - 1)
             ch == t[i - 1]
         IN IF b.lit
            THEN IF b.esc THEN [b EXCEPT !.esc = FALSE]
                 ELSE IF ch = "bs" THEN [b EXCEPT !.esc = TRUE]
                 ELSE IF ch = "q" THEN [b EXCEPT !.lit = FALSE]
                 ELSE b
            ELSE IF ch = "q" THEN [b EXCEPT !.lit = TRUE]
                 ELSE IF ch = "{" THEN [b EXCEPT !.depth = @ + 1]
                 ELSE IF ch = "}" THEN [b EXCEPT !.depth = @ - 1]
                 ELSE b

\* The positions at which a closing brace outside literals brings the depth
\* back to zero.
C21_Closings(t, begin) ==
    {i \in begin..Len(t) :
        /\ t[i] = "}"
        /\ ~C21_Before(t, begin, i).lit
        /\ C21_Before(t, begin, i).depth = 1}

\* What the statement says the function returns for the cleaned text t.
C21_Expected(t) ==
    IF FindBrace(t) = 0 THEN None
    ELSE IF C21_Closings(t, FindBrace(t)) = {} THEN None
    ELSE LET cand == SubSeq(t, FindBrace(t), MinOf(C21_Closings(t, FindBrace(t))))
         IN IF JsonLoads(cand) THEN JsonObj(cand) ELSE None

\* C21: both extraction functions return the object of the candidate that
\* runs from the first opening brace to the first closing brace at which the
\* depth of the braces outside string literals is back at zero (an escaped
\* quote does not end a literal), when that candidate parses; and nothing when
\* there is no opening brace, when the depth never returns to zero, or when the
\* candidate does not parse.
C21_CandidateIsFirstBalancedObject ==
    (pure.fn = "extract_json" /\ pure.result # None) =>
        /\ pure.result.generator = C21_Expected(CleanText(pure.text))
        /\ pure.result.main = C21_Expected(CleanTextOnePass(pure.text))

\* C21 witness: an object was extracted whose key holds an escaped quote and a
\* closing brace.
C21_Witness ==
    /\ pure.fn = "extract_json"
    /\ pure.result # None
    /\ pure.result.generator = JsonObj(<<"{", "q", "bs", "q", "}", "q", ":", "x", "}">>)
    /\ pure.result.main = pure.result.generator

\* A timestamp that is a number (not NaN, not infinite).
C22_Finite(value) == IsNumber(value) /\ "quarters" \in DOMAIN value

\* The exact local instant of a timestamp, in quarter ticks since the local
\* midnight that starts EpochDay, lies on day d.
C22_InstantOn(value, offset, d) ==
    LET local == value.quarters + offset * QuartersPerSecond
        first == (d - EpochDay) * DayTicks * QuartersPerTick
    IN first <= local /\ local < first + DayTicks * QuartersPerTick

\* The tick nearest to the timestamp (the even one of two equally near), taken
\* as local time, lies on day d.
C22_NearestTickOn(value, offset, d) ==
    \E k \in (RoundHalfEven(value.quarters) - 1)..(RoundHalfEven(value.quarters) + 1) :
        LET dist == IF value.quarters >= k * QuartersPerTick
                    THEN value.quarters - k * QuartersPerTick
                    ELSE k * QuartersPerTick - value.quarters
            local == k + offset * TicksPerSecond
        IN /\ 2 * dist <= QuartersPerTick
           /\ 2 * dist = QuartersPerTick => k % 2 = 0
           /\ (d - EpochDay) * DayTicks <= local
           /\ local < (d - EpochDay + 1) * DayTicks

\* C22 as stated: a date, a date-time and a numeric timestamp whose local
\* instant lies on the same calendar day all give that day's key, and a value
\* of any other kind raises TypeError.
C22_SameDaySameKey ==
    (pure.fn = "to_date_str" /\ pure.result # None) =>
        /\ pure.value.kind \in {"date", "datetime"} =>
              pure.result = [key |-> pure.value.day]
        /\ C22_Finite(pure.value) =>
              \A d \in Dates :
                  C22_InstantOn(pure.value, pure.offset, d) => pure.result = [key |-> d]
        /\ ~IsNumber(pure.value) /\ pure.value.kind \notin {"date", "datetime"} =>
              pure.result = [raises |-> "TypeError"]

\* C22 amended: a date and a date-time give the key of their own calendar day;
\* a number (bool included) gives the key of the local day of the tick nearest
\* to it when a date can hold that day, and raises ValueError or OverflowError
\* (never TypeError) when none can or when it is NaN or infinite; every other
\* kind raises TypeError.
C22_SameDaySameKeyRounded ==
    (pure.fn = "to_date_str" /\ pure.result # None) =>
        /\ pure.value.kind \in {"date", "datetime"} =>
              pure.result = [key |-> pure.value.day]
        /\ C22_Finite(pure.value) =>
              /\ \A d \in Dates :
                    C22_NearestTickOn(pure.value, pure.offset, d) => pure.result = [key |-> d]
              /\ (~\E d \in Dates : C22_NearestTickOn(pure.value, pure.offset, d)) =>
                    pure.result = [raises |-> "ValueError"]
        /\ IsNumber(pure.value) /\ ~C22_Finite(pure.value) =>
              pure.result \in {[raises |-> "ValueError"], [raises |-> "OverflowError"]}
        /\ ~IsNumber(pure.value) /\ pure.value.kind \notin {"date", "datetime"} =>
              pure.result = [raises |-> "TypeError"]

\* C22 witness: a float timestamp east of UTC whose UTC day is the day before
\* its local day got the key of the local day.
C22_Witness ==
    /\ pure.fn = "to_date_str"
    /\ pure.result # None
    /\ pure.value.kind = "float"
    /\ "quarters" \in DOMAIN pure.value
    /\ pure.offset = 1
    /\ pure.result = [key |-> 2]
    /\ LocalDayOf_Utc(pure.value.quarters, pure.offset) = 1

C24_MemoryUpdatedAfterWriteBegins ==
    [][(/\ lastOp'.op = "set"
        /\ ~lastOp'.ok
        /\ store.tmp = NoFile
        /\ store'.tmp = NoFile
        /\ store'.file = store.file) =>
            /\ store'.mem = store.mem
            /\ Load(store.file) = store.mem => Load(store'.file) = store'.mem]_vars

\* Invocation c is collecting its context.
C25_Collecting(c) == calls[c].pc \in {"persona", "chats_cid", "chats_conv"}

\* C25: a failed holiday, persona or recent-dialogue lookup never ends the
\* invocation: the context holds the fixed fallback for it ("" for the
\* holiday, the fallback sentence for the persona, the failure text for the
\* dialogue); the step that ends context collection issues the first model
\* call, or returns the degraded record because of the configuration or the
\* missing provider (KeyError, RuntimeError) and never because of a lookup;
\* and no invocation raises.
C25_LookupFailuresAbsorbed ==
    /\ [](\A c \in Calls :
            /\ calls[c].pc # "raised"
            /\ calls[c].logged \notin {"PersonaError", "ChatsError", "HolidayError"}
            /\ "holiday" \in calls[c].failed => calls[c].ctx.holiday = ""
            /\ "persona" \in calls[c].failed => calls[c].ctx.persona = "fallback persona"
            /\ "chats" \in calls[c].failed => calls[c].ctx.recent_chats = "fetch failed")
    /\ [][\A c \in Calls :
            /\ (calls[c].pc = "idle" /\ calls'[c].pc \notin {"idle", "rejected"}) =>
                  calls'[c].pc = "persona"
            /\ (C25_Collecting(c) /\ ~C25_Collecting(c)') =>
                  \/ /\ calls'[c].pc = "text_chat"
                     /\ calls'[c].chatted = {0}
                     /\ calls[c].failed \subseteq calls'[c].failed
                  \/ /\ calls'[c].pc = "returned"
                     /\ calls'[c].logged \in {"KeyError", "RuntimeError"}]_vars

\* C25 witness: all three lookups failed and the first model call is in flight
\* with the three fallback values in the context.
C25_Witness ==
    \E c \in Calls :
        /\ calls[c].pc = "text_chat"
        /\ calls[c].failed = {"holiday", "persona", "chats"}
        /\ calls[c].ctx = [holiday |-> "", persona |-> "fallback persona",
                           recent_chats |-> "fetch failed"]

\* The days before today, counted back from 1, that _get_history is to report:
\* those of the previous `days` days with a stored record of status ok.
C26_OkDays ==
    {i \in 1..pure.days : pure.history[i] # None /\ pure.history[i].status = "ok"}

\* s is the text t cut to its first n tokens.
C26_IsCut(s, t, n) ==
    /\ Len(s) = (IF Len(t) < n THEN Len(t) ELSE n)
    /\ \A j \in 1..Len(s) : s[j] = t[j]

\* C26: the result has one line for each of the previous N days that has a
\* stored record with status ok and no other line, the line of a more recent
\* day before the line of an older one, each with its day's date, the outfit
\* cut to 40 and the schedule cut to 60; when N <= 0 or no day qualifies the
\* result is the sentinel.
C26_HistoryLines ==
    (pure.fn = "get_history" /\ pure.result # None) =>
        IF pure.days <= 0 \/ C26_OkDays = {}
        THEN pure.result = NoHistory
        ELSE /\ "lines" \in DOMAIN pure.result
             /\ Len(pure.result.lines) = Cardinality(C26_OkDays)
             /\ \A i \in C26_OkDays :
                   LET line == pure.result.lines[Cardinality({j \in C26_OkDays : j <= i})]
                   IN /\ line.date = pure.today - i
                      /\ C26_IsCut(line.outfit, pure.history[i].outfit, 40)
                      /\ C26_IsCut(line.schedule, pure.history[i].schedule, 60)

\* C26 witness: with N = 2, yesterday's record is degraded and the record of
\* the day before has an outfit of 41 and a schedule of 61 tokens: one line,
\* both texts cut.
C26_Witness ==
    /\ pure.fn = "get_history"
    /\ pure.result # None
    /\ pure.days = 2
    /\ pure.history[1] # None
    /\ pure.history[1].status = "failed"
    /\ pure.history[2] # None
    /\ pure.history[2].status = "ok"
    /\ Len(pure.history[2].outfit) = 41
    /\ Len(pure.history[2].schedule) = 61
    /\ "lines" \in DOMAIN pure.result
    /\ Len(pure.result.lines) = 1
    /\ Len(pure.result.lines[1].outfit) = 40
    /\ Len(pure.result.lines[1].schedule) = 60

\* C27: a call that is rejected finds the flag set and leaves it set, leaves
\* the store and the invocation in flight as they are, and makes no model call
\* and no session cleanup; the flag stays set for as long as the generation is
\* in flight, so every call made in the meantime, also one after an earlier
\* rejection, is rejected.
C27_RejectionKeepsFlag ==
    /\ [](\A d \in Calls : InPipeline(d) => generating)
    /\ [][\A c \in Calls :
            /\ (calls[c].pc = "idle" /\ calls'[c].pc = "rejected") =>
                  /\ generating
                  /\ generating'
                  /\ store' = store
                  /\ calls'[c].chatted = {}
                  /\ calls'[c].cleaned = {}
                  /\ \E d \in Calls \ {c} : InPipeline(d)
                  /\ \A d \in Calls \ {c} : calls'[d] = calls[d]
            /\ (/\ calls[c].pc = "idle"
                /\ calls'[c].pc # "idle"
                /\ \E d \in Calls \ {c} : InPipeline(d)) =>
                  /\ calls'[c].pc = "rejected"
                  /\ calls'[c].result = [error |-> "schedule_generating"]]_vars

\* C27 witness: a caller whose call was rejected is about to call again while
\* the generation that was in flight then, now at its last repair call, still
\* holds the flag.
C27_Witness ==
    \E c, d \in Calls :
        /\ calls[c].pc = "idle"
        /\ calls[c].result = [error |-> "schedule_generating"]
        /\ calls[d].pc = "text_chat"
        /\ calls[d].repairs = 2
        /\ generating

\* C28: on the lazy path at most one generation attempt is started for a day:
\* once an attempt has failed and the day is in failed_dates, no request starts
\* another model call for it, the requests that were already waiting on
\* generation_lock included. (A request at its model call holds the lock, and
\* only a request holding the lock adds the day to failed_dates, so the day is
\* in failed_dates during a request's model call only when the attempt was
\* started after an earlier one had failed.)
C28_OneLazyAttemptPerDay ==
    \A t \in DOMAIN bot.tasks :
        (bot.tasks[t].kind = "request" /\ bot.tasks[t].pc = "llm") => ~bot.failed

\* C29: in every state of ScheduleDataManager, the state right after load()
\* of any file content included, every key k of the map holds a record whose
\* date is k.
C29_KeyIsRecordDate ==
    \A k \in DOMAIN store.mem : store.mem[k].date = k

\* C30: on_llm_request does nothing with a request of the plugin's own
\* generations (it starts no generation and appends nothing), so no task waits
\* for the generation_lock it holds, and every task that acquires the lock
\* (daily task, weekly task, lazy generation, regenerate, newweek) releases it
\* once its model call has returned or raised: the lock is free again and again.
C30_OwnRequestsIgnored ==
    /\ [](\A t \in DOMAIN bot.tasks :
            /\ bot.tasks[t].hook \in {"none", "returned"}
            /\ bot.owner = t => t \notin Range(bot.waiters))
    /\ []<>(bot.owner = "free")

\* The weekly task holds the lock, the request of its model call has gone
\* through on_llm_request, and another path waits for the lock.
C30_Witness ==
    /\ bot # NoBot
    /\ bot.owner = "weekly"
    /\ bot.tasks["weekly"].pc = "week_llm"
    /\ bot.tasks["weekly"].hook = "returned"
    /\ bot.waiters # <<>>

\* C31: when the "/life regenerate" command completes, after a generation that
\* succeeded or one that failed, the entry schedule_data holds for today and
\* the entry the data file holds for today are the same.
C31_RegenerateLeavesMemoryEqualDisk ==
    [][\A t \in DOMAIN bot.tasks :
          (/\ bot.tasks[t].kind = "regenerate"
           /\ bot.tasks[t].pc # "done"
           /\ bot'.tasks[t].pc = "done")
          => (bot'.disk.kind = "json" /\ bot'.disk.data = bot'.data)]_vars

====
